---------------------------- MODULE Spec2Model ----------------------------
(***************************************************************************)
(* PerfScope analytics engine (src/src/stats.js): order statistics, the    *)
(* robust outlier detector, the column standardizer and k-means.           *)
(*                                                                         *)
(* Numbers.  A JavaScript number is modelled as a record [n, d, e]:        *)
(*   d > 0 : the finite value (n / d) * 10^e, n/d in lowest terms;         *)
(*   d = 0 : NaN (n = 0), +Infinity (n = 1), -Infinity (n = -1).           *)
(* Arithmetic is exact on the finite values, with the IEEE-754 rules at    *)
(* the edges: overflow past the largest double gives an infinity, an       *)
(* operand more than 17 decimal orders below the other is absorbed by an   *)
(* addition, and NaN / infinities propagate as in the language.  Rounding  *)
(* of the 53-bit mantissa is not modelled, and -0 is not told from 0.      *)
(***************************************************************************)
EXTENDS Integers, Sequences, FiniteSets, TLC

VARIABLES
    op,        \* which operation the last step ran ("init" before any)
    xs,        \* percentile: the caller's array of values
    pp,        \* percentile: the requested p
    pout,      \* percentile: the returned value
    entries,   \* computeStats / robustZOutliers: the caller's record list
    topN,      \* robustZOutliers: the requested maximum number of results
    stats,     \* computeStats: the returned summary
    outliers,  \* robustZOutliers: the returned sequence
    rows,      \* normalizeRows: the caller's matrix
    nrm,       \* normalizeRows: the intermediate columns and the result
    kmX,       \* kmeans: the matrix X the caller clusters
    kmK,       \* kmeans: k
    kmIters,   \* kmeans: iters
    kmSeed,    \* kmeans: seed of the call in progress (or the last one)
    pc,        \* kmeans: "idle", in the Lloyd "loop", after its "break", "done"
    rng,       \* kmeans: the state a of the call's generator
    centers,   \* kmeans: centers
    assign,    \* kmeans: assign
    kmT,       \* kmeans: the loop counter t, the number of rounds run
    changed,   \* kmeans: changed of the last round (-1 before the first)
    memo,      \* per seed, the result of the first call that returned
    kmPrev,    \* the seed of the call before the one in progress
    kmRepeat,  \* whether a call with kmSeed had returned before this one began
    appEntries,   \* app.js: state.entries
    appK,         \* app.js: state.k
    appTypes,     \* app.js: state.enabledTypes
    appFilter,    \* app.js: state.filter
    clusters,     \* app.js: state.clusters
    recording,    \* app.js: state.recording
    nextId,       \* recorder.js: _nextId
    saved,        \* IndexedDB: the entries of 'perfscope:lastSession', if any
    persistTimer, \* app.js: whether the timer of persistDebounced is pending
    recTypes,     \* recorder.js: cfg.entryTypes, the types the recorder observes
    calls,        \* the calls of normalizeRows and kmeans the last handler made
    raised,       \* whether the last recompute() ended by an exception
    given,     \* the arguments as the caller built them, before any call
    owner,     \* of each array the last call returned, which array object it is
    gen,       \* mulberry32: a generator next to the reference Mulberry32
    share,     \* encodeSession / decodeSession: the argument and the outcome
    probe      \* app.js: state.probeToken, probeConnected, probeSource

pctVars == <<xs, pp, pout>>
recVars == <<entries, topN, stats, outliers>>
nrmVars == <<rows, nrm>>
kmVars == <<kmX, kmK, kmIters, kmSeed, pc, rng, centers, assign, kmT, changed,
           memo, kmPrev, kmRepeat>>
appVars == <<appEntries, appK, appTypes, appFilter, clusters, recording, nextId, saved,
             persistTimer, recTypes, calls, raised>>
frameVars == <<given, owner>>
vars == <<op, pctVars, recVars, nrmVars, kmVars, appVars, frameVars, gen, share, probe>>

-----------------------------------------------------------------------------
(* Numbers *)

Abs(i) == IF i < 0 THEN -i ELSE i

RECURSIVE Gcd(_, _)
Gcd(a, b) == IF b = 0 THEN a ELSE Gcd(b, a % b)

NaN == [n |-> 0, d |-> 0, e |-> 0]
PosInf == [n |-> 1, d |-> 0, e |-> 0]
NegInf == [n |-> -1, d |-> 0, e |-> 0]
Zero == [n |-> 0, d |-> 1, e |-> 0]

\* Number.isFinite
IsFinite(x) == x.d # 0
IsNaN(x) == x.d = 0 /\ x.n = 0

\* the finite value (n/d) * 10^e in lowest terms (d > 0)
Fin(n, d, e) ==
    IF n = 0 THEN Zero
    ELSE LET g == Gcd(Abs(n), d) IN [n |-> n \div g, d |-> d \div g, e |-> e]

Int2Num(i) == [n |-> i, d |-> 1, e |-> 0]
Rat(n, d) == Fin(n, d, 0)

Sign(x) == IF x.n > 0 THEN 1 ELSE IF x.n < 0 THEN -1 ELSE 0
Neg(x) == [n |-> -x.n, d |-> x.d, e |-> x.e]
Mag(x) == [n |-> Abs(x.n), d |-> x.d, e |-> x.e]

\* <<floor(x / 10^g), whether the division is exact>> for x >= 0, g >= 0
RECURSIVE DivPow10(_, _)
DivPow10(x, g) ==
    IF g = 0 THEN <<x, TRUE>>
    ELSE IF x = 0 THEN <<0, TRUE>>
    ELSE LET r == DivPow10(x \div 10, g - 1)
         IN <<r[1], r[2] /\ (x % 10 = 0)>>

\* compares l * 10^g with r (l, r, g >= 0): -1, 0 or 1
CmpScaled(l, g, r) ==
    LET q == DivPow10(r, g)
    IN IF l > q[1] THEN 1
       ELSE IF l < q[1] THEN -1
       ELSE IF q[2] THEN 0 ELSE -1

\* compares the finite non-negative a and b: -1, 0 or 1
CmpMag(a, b) ==
    LET l == a.n * b.d
        r == b.n * a.d
    IN IF a.e >= b.e THEN CmpScaled(l, a.e - b.e, r)
       ELSE -CmpScaled(r, b.e - a.e, l)

\* compares two numbers, neither NaN: -1, 0 or 1
Cmp(x, y) ==
    IF x.d = 0 \/ y.d = 0
    THEN LET vx == IF x.d = 0 THEN 2 * x.n ELSE 0
             vy == IF y.d = 0 THEN 2 * y.n ELSE 0
         IN IF vx < vy THEN -1 ELSE IF vx > vy THEN 1 ELSE 0
    ELSE IF Sign(x) # Sign(y) THEN (IF Sign(x) < Sign(y) THEN -1 ELSE 1)
    ELSE IF Sign(x) >= 0 THEN CmpMag(x, y)
    ELSE CmpMag(Mag(y), Mag(x))

\* the relational operators of the language: false when an operand is NaN
Lt(x, y) == ~IsNaN(x) /\ ~IsNaN(y) /\ Cmp(x, y) < 0
Le(x, y) == ~IsNaN(x) /\ ~IsNaN(y) /\ Cmp(x, y) <= 0
Gt(x, y) == Lt(y, x)
NumEq(x, y) == ~IsNaN(x) /\ ~IsNaN(y) /\ Cmp(x, y) = 0

\* the largest and the smallest positive double, to two digits
MaxValue == [n |-> 9, d |-> 5, e |-> 308]
MinValue == [n |-> 5, d |-> 1, e |-> -324]

\* a finite exact result as the double it becomes: overflow and underflow
Range(x) ==
    IF x.n = 0 THEN Zero
    ELSE IF CmpMag(Mag(x), MaxValue) > 0 THEN (IF x.n > 0 THEN PosInf ELSE NegInf)
    ELSE IF CmpMag(Mag(x), MinValue) < 0 THEN Zero
    ELSE x

RECURSIVE Pow10(_)
Pow10(g) == IF g = 0 THEN 1 ELSE 10 * Pow10(g - 1)

\* x + y
Add(x, y) ==
    IF IsNaN(x) \/ IsNaN(y) THEN NaN
    ELSE IF x.d = 0 /\ y.d = 0 THEN (IF x.n = y.n THEN x ELSE NaN)
    ELSE IF x.d = 0 THEN x
    ELSE IF y.d = 0 THEN y
    ELSE IF x.n = 0 THEN y
    ELSE IF y.n = 0 THEN x
    ELSE IF x.e = y.e THEN Range(Fin(x.n * y.d + y.n * x.d, x.d * y.d, x.e))
    ELSE LET hi == IF CmpMag(Mag(x), Mag(y)) >= 0 THEN x ELSE y
             lo == IF CmpMag(Mag(x), Mag(y)) >= 0 THEN y ELSE x
             up == [n |-> Abs(lo.n), d |-> lo.d, e |-> lo.e + 17]
         IN IF CmpMag(up, Mag(hi)) <= 0 THEN hi
            ELSE LET e0 == IF x.e < y.e THEN x.e ELSE y.e
                     xn == x.n * Pow10(x.e - e0)
                     yn == y.n * Pow10(y.e - e0)
                 IN Range(Fin(xn * y.d + yn * x.d, x.d * y.d, e0))

Sub(x, y) == Add(x, Neg(y))

\* x * y
Mul(x, y) ==
    IF IsNaN(x) \/ IsNaN(y) THEN NaN
    ELSE IF x.d = 0 \/ y.d = 0
    THEN (IF x.n = 0 \/ y.n = 0 THEN NaN
          ELSE IF Sign(x) = Sign(y) THEN PosInf ELSE NegInf)
    ELSE Range(Fin(x.n * y.n, x.d * y.d, x.e + y.e))

\* x / y
Div(x, y) ==
    IF IsNaN(x) \/ IsNaN(y) THEN NaN
    ELSE IF x.d = 0 /\ y.d = 0 THEN NaN
    ELSE IF x.d = 0 THEN (IF Sign(x) * (IF y.n < 0 THEN -1 ELSE 1) > 0 THEN PosInf ELSE NegInf)
    ELSE IF y.d = 0 THEN Zero
    ELSE IF y.n = 0
    THEN (IF x.n = 0 THEN NaN ELSE IF x.n > 0 THEN PosInf ELSE NegInf)
    ELSE Range(Fin(x.n * y.d * (IF y.n < 0 THEN -1 ELSE 1), x.d * Abs(y.n), x.e - y.e))

\* Math.abs
NumAbs(x) == IF x.n < 0 THEN Neg(x) ELSE x

\* Math.floor and Math.ceil of a finite number of exponent 0, as integers
Floor(x) == x.n \div x.d
Ceil(x) == -((-x.n) \div x.d)

-----------------------------------------------------------------------------
(* Arrays: Array.prototype.sort is stable; a comparator result that is not  *)
(* negative leaves the pair in place.                                       *)

\* .sort((a,b)=>a-b) on numbers: x goes into the sorted s before the first
\* element it is less than
RECURSIVE InsertAsc(_, _)
InsertAsc(x, s) ==
    IF s = <<>> THEN <<x>>
    ELSE IF Lt(Sub(x, s[1]), Zero) THEN <<x>> \o s
    ELSE <<s[1]>> \o InsertAsc(x, Tail(s))

RECURSIVE SortAsc(_)
SortAsc(s) ==
    IF s = <<>> THEN <<>>
    ELSE InsertAsc(s[Len(s)], SortAsc(SubSeq(s, 1, Len(s) - 1)))

-----------------------------------------------------------------------------
(* Order statistics: stats.js, percentile / percentileSorted / median *)

\* (mutant) the interpolation weights exchanged
percentileSortedSwapped(a, p) ==
    LET n == Len(a)
        i == Mul(Int2Num(n - 1), p)
        lo == Floor(i)
        hi == Ceil(i)
        t == Sub(i, Int2Num(lo))
    IN IF n = 0 THEN Zero
       ELSE IF lo = hi THEN a[lo + 1]
       ELSE Add(Mul(a[lo + 1], t), Mul(a[hi + 1], Sub(Int2Num(1), t)))

\* percentileSorted(a, p): a[] is indexed from 0 in the source, from 1 here
percentileSorted(a, p) ==
    LET n == Len(a)
        i == Mul(Int2Num(n - 1), p)
        lo == Floor(i)
        hi == Ceil(i)
        t == Sub(i, Int2Num(lo))
    IN IF n = 0 THEN Zero
       ELSE IF lo = hi THEN a[lo + 1]
       ELSE Add(Mul(a[lo + 1], Sub(Int2Num(1), t)), Mul(a[hi + 1], t))

\* percentile(xs, p): sorts a copy of xs
percentile(v, p) ==
    IF Len(v) = 0 THEN Zero
    ELSE percentileSorted(SortAsc(v), p)

\* median(sorted)
median(sorted) == percentileSorted(sorted, Rat(1, 2))

\* ---- the percentile call as a step of the caller

MaxLen == 4
MaxVal == 2

RECURSIVE SeqsUpTo(_, _)
SeqsUpTo(S, k) ==
    IF k = 0 THEN {<<>>}
    ELSE LET prev == SeqsUpTo(S, k - 1)
         IN prev \cup {Append(s, x) : s \in {q \in prev : Len(q) = k - 1}, x \in S}

PctValues == {Int2Num(v) : v \in -1..MaxVal}
PctInputs ==
    SeqsUpTo(PctValues, MaxLen)
        \cup {<<Int2Num(1), Int2Num(2), Int2Num(3), Int2Num(4)>>, <<Int2Num(10)>>}
PctPs == {Rat(0, 1), Rat(1, 3), Rat(1, 2), Rat(9, 10), Rat(19, 20), Rat(1, 1)}

\* the variables a specification does not use stay at these values
IdlePct == xs = <<>> /\ pp = Zero /\ pout = Zero
IdleRec == entries = <<>> /\ topN = 0 /\ stats = <<>> /\ outliers = <<>>
IdleNrm == rows = <<>> /\ nrm = <<>>
IdleKm ==
    /\ kmX = <<>> /\ kmK = 0 /\ kmIters = 0 /\ kmSeed = <<0, 0>>
    /\ pc = "idle" /\ rng = <<0, 0>> /\ centers = <<>> /\ assign = <<>>
    /\ kmT = 0 /\ changed = 0 - 1
    /\ memo = <<>> /\ kmPrev = <<>> /\ kmRepeat = FALSE
IdleApp ==
    /\ appEntries = <<>> /\ appK = 0 /\ appTypes = {} /\ appFilter = <<>>
    /\ clusters = <<>> /\ recording = FALSE /\ nextId = 1 /\ saved = <<>>
    /\ persistTimer = FALSE /\ recTypes = {} /\ calls = <<>> /\ raised = FALSE

\* an array object an operation returned is one it created itself (OwnArray)
\* or the i-th row of its input matrix (i, from 0)
OwnArray == 0 - 1
NoneReturned == [centers |-> <<>>, rows |-> <<>>]
IdleFrame == given = <<>> /\ owner = NoneReturned
IdleGen == gen = <<>>
IdleShare == share = <<>>
IdleProbe == probe = <<>>

InitPct ==
    /\ op = "init"
    /\ xs \in PctInputs
    /\ pp \in PctPs
    /\ pout = Zero
    /\ IdleRec /\ IdleNrm /\ IdleKm /\ IdleApp /\ IdleFrame /\ IdleGen /\ IdleShare /\ IdleProbe

\* the array object the caller passed, after percentile returned: the sort
\* ran on xs.slice(), a copy
percentileArgInPlace(v) == SortAsc(v)
percentileArg(v) == v

Percentile ==
    /\ op = "init"
    /\ op' = "percentile"
    /\ pout' = percentile(xs, pp)
    /\ xs' = percentileArg(xs)
    /\ UNCHANGED <<pp, recVars, nrmVars, kmVars, appVars, frameVars, gen, share, probe>>

NextPct == Percentile

SpecPct == InitPct /\ [][NextPct]_vars

\* ---- C8

\* the k-th smallest (k from 1) of the integers of the array v, by counting
KthSmallest(v, k) ==
    CHOOSE x \in {v[i].n : i \in 1..Len(v)} :
        /\ Cardinality({i \in 1..Len(v) : v[i].n < x}) < k
        /\ k <= Cardinality({i \in 1..Len(v) : v[i].n <= x})

\* the interpolated percentile of integers in integer arithmetic: with
\* p = pn/pd and (n-1)*pn = lo*pd + rem, the value
\* (a[lo]*(pd-rem) + a[lo+1]*rem) / pd
InterpolatedInt(v, pn, pd) ==
    LET idx == (Len(v) - 1) * pn
        lo == idx \div pd
        rem == idx % pd
    IN IF rem = 0 THEN Rat(KthSmallest(v, lo + 1), 1)
       ELSE Rat(KthSmallest(v, lo + 1) * (pd - rem) + KthSmallest(v, lo + 2) * rem, pd)

PercentileValueOK ==
    op = "percentile" =>
        /\ Len(xs) = 0 => pout = Zero
        /\ Len(xs) > 0 =>
            /\ pout = InterpolatedInt(xs, pp.n, pp.d)
            /\ \E i \in 1..Len(xs) : Le(xs[i], pout)
            /\ \E i \in 1..Len(xs) : Le(pout, xs[i])
        /\ (xs = <<Int2Num(1), Int2Num(2), Int2Num(3), Int2Num(4)>> /\ pp = Rat(1, 2))
              => pout = Rat(5, 2)
        /\ (xs = <<Int2Num(10)>> /\ pp = Rat(9, 10)) => pout = Int2Num(10)

\* C8: percentile(values, p), p in [0,1], returns 0 on empty input and otherwise
\* the linear interpolation a[floor(i)]*(1-t) + a[ceil(i)]*t of the ascending
\* sort a at i = (n-1)*p (a[i] itself when i is an integer); it is 2.5 on
\* ([1,2,3,4], 0.5) and 10 on ([10], 0.9), lies between the least and the
\* greatest value, and the call leaves the caller's array in its order.
C8_Percentile == [](PercentileValueOK) /\ [][xs' = xs]_vars

\* an unsorted array of at least three values, interpolated strictly between two
C8_Witness ==
    /\ op = "percentile"
    /\ Len(xs) >= 3
    /\ xs # SortAsc(xs)
    /\ pp = Rat(19, 20)
    /\ \A i \in 1..Len(xs) : pout # xs[i]

-----------------------------------------------------------------------------
(* Records.  An entry is [id, startTime, duration]; a missing field reads   *)
(* as undefined, which Number.isFinite rejects and arithmetic turns into    *)
(* NaN, so it is modelled as NaN.                                           *)

Entry(i, st, du) == [id |-> i, startTime |-> st, duration |-> du]

\* the list whose i-th record has id i, from a list of <<startTime, duration>>
MkEntries(fields) == [i \in 1..Len(fields) |-> Entry(i, fields[i][1], fields[i][2])]

\* Math.min(...a) and Math.max(...a) of a non-empty array
RECURSIVE MinOf(_)
MinOf(a) ==
    IF Len(a) = 1 THEN a[1]
    ELSE LET m == MinOf(Tail(a))
         IN IF IsNaN(a[1]) \/ IsNaN(m) THEN NaN ELSE IF Lt(a[1], m) THEN a[1] ELSE m

RECURSIVE MaxOf(_)
MaxOf(a) ==
    IF Len(a) = 1 THEN a[1]
    ELSE LET m == MaxOf(Tail(a))
         IN IF IsNaN(a[1]) \/ IsNaN(m) THEN NaN ELSE IF Gt(a[1], m) THEN a[1] ELSE m

\* entries.map(e => e.startTime), .map(e => e.startTime + e.duration) and
\* .map(e => e.duration)
Starts(es) == [i \in 1..Len(es) |-> es[i].startTime]
Ends(es) == [i \in 1..Len(es) |-> Add(es[i].startTime, es[i].duration)]
Durations(es) == [i \in 1..Len(es) |-> es[i].duration]

\* (mutant) the span ends at the greatest start time
computeStatsNoDuration(es) ==
    LET times == SelectSeq(Starts(es), IsFinite)
        ends == SelectSeq(Starts(es), IsFinite)
        durs == SelectSeq(Durations(es), IsFinite)
    IN [minTime |-> IF Len(times) # 0 THEN MinOf(times) ELSE Zero,
        maxTime |-> IF Len(ends) # 0 THEN MaxOf(ends) ELSE Zero,
        p50Duration |-> percentile(durs, Rat(1, 2)),
        p95Duration |-> percentile(durs, Rat(19, 20))]

\* computeStats(entries)
computeStats(es) ==
    LET times == SelectSeq(Starts(es), IsFinite)
        ends == SelectSeq(Ends(es), IsFinite)
        durs == SelectSeq(Durations(es), IsFinite)
    IN [minTime |-> IF Len(times) # 0 THEN MinOf(times) ELSE Zero,
        maxTime |-> IF Len(ends) # 0 THEN MaxOf(ends) ELSE Zero,
        p50Duration |-> percentile(durs, Rat(1, 2)),
        p95Duration |-> percentile(durs, Rat(19, 20))]

\* ---- the computeStats call as a step of the caller

MaxEntries == 3

StartValues == {Int2Num(0), Int2Num(1), Int2Num(3), NaN}
DurationValues == {Int2Num(0), Int2Num(2), Int2Num(5), NaN}

InitStats ==
    /\ op = "init"
    /\ entries \in {MkEntries(f) : f \in SeqsUpTo(StartValues \X DurationValues, MaxEntries)}
    /\ topN = 0 /\ stats = <<>> /\ outliers = <<>>
    /\ IdlePct /\ IdleNrm /\ IdleKm /\ IdleApp /\ IdleFrame /\ IdleGen /\ IdleShare /\ IdleProbe

ComputeStats ==
    /\ op = "init"
    /\ op' = "computeStats"
    /\ stats' = computeStats(entries)
    /\ UNCHANGED <<pctVars, entries, topN, outliers, nrmVars, kmVars, appVars, frameVars,
                  gen, share, probe>>

NextStats == ComputeStats

SpecStats == InitStats /\ [][NextStats]_vars

\* ---- C9

Least(S) == CHOOSE m \in S : \A x \in S : m <= x
Greatest(S) == CHOOSE m \in S : \A x \in S : m >= x

AllFields(es) == \A i \in 1..Len(es) : IsFinite(es[i].startTime) /\ IsFinite(es[i].duration)

\* C9: computeStats returns minTime = maxTime = p50Duration = p95Duration = 0 on
\* the empty list; on a non-empty list of records with finite fields, minTime is
\* the least startTime, maxTime the greatest startTime + duration, and
\* p50Duration / p95Duration the 0.50 / 0.95 percentile of the durations.
C9_ComputeStats ==
    op = "computeStats" =>
        /\ Len(entries) = 0 =>
              stats = [minTime |-> Zero, maxTime |-> Zero,
                       p50Duration |-> Zero, p95Duration |-> Zero]
        /\ (Len(entries) > 0 /\ AllFields(entries)) =>
              LET I == 1..Len(entries)
                  durs == Durations(entries)
              IN /\ stats.minTime = Int2Num(Least({entries[i].startTime.n : i \in I}))
                 /\ stats.maxTime =
                       Int2Num(Greatest({entries[i].startTime.n + entries[i].duration.n : i \in I}))
                 /\ stats.p50Duration = InterpolatedInt(durs, 1, 2)
                 /\ stats.p95Duration = InterpolatedInt(durs, 19, 20)

\* three records with finite fields, the latest end not at the latest start
C9_Witness ==
    /\ op = "computeStats"
    /\ Len(entries) = 3
    /\ AllFields(entries)
    /\ stats.maxTime = Ends(entries)[1]
    /\ Lt(entries[1].startTime, entries[2].startTime)
    /\ Lt(stats.p50Duration, stats.p95Duration)

-----------------------------------------------------------------------------
(* The robust outlier detector: stats.js, robustZOutliers *)

\* Array.prototype.slice(0, end) for an integer end
Slice0(a, end) ==
    LET to == IF end < 0 THEN (IF Len(a) + end < 0 THEN 0 ELSE Len(a) + end)
              ELSE IF end > Len(a) THEN Len(a) ELSE end
    IN SubSeq(a, 1, to)

\* the constants of the detector
MinSamples == 8
TinyMad == [n |-> 1, d |-> 1, e |-> -9]
MadToSigma == Rat(1349, 2000)
ZThreshold == Rat(5, 2)

\* x || y on numbers: y when x is 0 or NaN
OrElse(x, y) == IF IsNaN(x) \/ (IsFinite(x) /\ x.n = 0) THEN y ELSE x

HasFiniteDuration(e) == IsFinite(e.duration)

\* .sort((a,b)=>b.z-a.z) on scored records: x goes before the first element
\* the comparator puts it in front of
RECURSIVE InsertByZ(_, _)
InsertByZ(x, s) ==
    IF s = <<>> THEN <<x>>
    ELSE IF Lt(Sub(s[1].z, x.z), Zero) THEN <<x>> \o s
    ELSE <<s[1]>> \o InsertByZ(x, Tail(s))

RECURSIVE SortByZ(_)
SortByZ(s) ==
    IF s = <<>> THEN <<>>
    ELSE InsertByZ(s[Len(s)], SortByZ(SubSeq(s, 1, Len(s) - 1)))

\* the sorted finite durations, their median and the scale 0.6745 / mad
SortedDurations(es) == SortAsc(SelectSeq(Durations(es), IsFinite))
Med(es) == percentileSorted(SortedDurations(es), Rat(1, 2))
RawMad(es) ==
    LET med == Med(es)
        d == SortedDurations(es)
    IN median(SortAsc([i \in 1..Len(d) |-> NumAbs(Sub(d[i], med))]))
Mad(es) == OrElse(RawMad(es), TinyMad)
Scale(es) == Div(MadToSigma, Mad(es))

\* entries.filter(finite).map(score).filter(z > 2.5)
Scored(es, med, scale) ==
    LET fin == SelectSeq(es, HasFiniteDuration)
        above(o) == Gt(o.z, ZThreshold)
    IN SelectSeq([i \in 1..Len(fin) |->
                     [entry |-> fin[i], z |-> Mul(Sub(fin[i].duration, med), scale)]],
                 above)

\* (mutant) the sample minimum counts every record
robustZOutliersCountAll(es, top) ==
    IF Len(es) < MinSamples THEN <<>>
    ELSE Slice0(SortByZ(Scored(es, Med(es), Scale(es))), top)

\* (mutant) the kept records left in input order
robustZOutliersUnsorted(es, top) ==
    IF Len(SortedDurations(es)) < MinSamples THEN <<>>
    ELSE Slice0(Scored(es, Med(es), Scale(es)), top)

\* (mutant) the threshold applied to the score below the median too
robustZOutliersTwoSided(es, top) ==
    LET up == Scored(es, Med(es), Scale(es))
        down == Scored(es, Med(es), Neg(Scale(es)))
    IN IF Len(SortedDurations(es)) < MinSamples THEN <<>>
       ELSE Slice0(SortByZ(up \o down), top)

\* (mutant) a zero mad used as it is
robustZOutliersZeroMad(es, top) ==
    IF Len(SortedDurations(es)) < MinSamples THEN <<>>
    ELSE Slice0(SortByZ(Scored(es, Med(es), Div(MadToSigma, RawMad(es)))), top)

\* robustZOutliers(entries, { topN })
robustZOutliers(es, top) ==
    IF Len(SortedDurations(es)) < MinSamples THEN <<>>
    ELSE Slice0(SortByZ(Scored(es, Med(es), Scale(es))), top)

\* ---- the robustZOutliers call as a step of the caller

MaxCount == 2
MaxBase == 9
MaxTopN == 2

\* the durations a list is made of; the second is the one repeated up to
\* MaxBase times
DurationKinds == <<Int2Num(0), Int2Num(1), NaN, Int2Num(5), Int2Num(9)>>
DurationCounts ==
    {[v \in 1..Len(DurationKinds) |-> IF v = 2 THEN b ELSE c[v]] :
        b \in 0..MaxBase, c \in [1..Len(DurationKinds) -> 0..MaxCount]}

\* the list with cnt[v] records of duration DurationKinds[v], dealt in rounds:
\* one record of each duration still due, in the order of DurationKinds
RECURSIVE Deal(_, _, _)
Deal(cnt, r, v) ==
    IF \A w \in 1..Len(DurationKinds) : cnt[w] < r THEN <<>>
    ELSE IF v > Len(DurationKinds) THEN Deal(cnt, r + 1, 1)
    ELSE (IF cnt[v] >= r THEN <<DurationKinds[v]>> ELSE <<>>) \o Deal(cnt, r, v + 1)

\* records starting at 0 with the durations du
StartingAtZero(du) == MkEntries([i \in 1..Len(du) |-> <<Zero, du[i]>>])

\* eight records of duration 10 and one of 1000
SlowOne == [i \in 1..9 |-> IF i = 9 THEN Int2Num(1000) ELSE Int2Num(10)]

OutlierInputs ==
    {StartingAtZero(Deal(c, 1, 1)) : c \in DurationCounts}
        \cup {StartingAtZero(SlowOne)}
TopNs == (-1..MaxTopN) \cup {10}

InitOut ==
    /\ op = "init"
    /\ entries \in OutlierInputs
    /\ topN \in TopNs
    /\ stats = <<>> /\ outliers = <<>>
    /\ IdlePct /\ IdleNrm /\ IdleKm /\ IdleApp /\ IdleFrame /\ IdleGen /\ IdleShare /\ IdleProbe

RobustZOutliers ==
    /\ op = "init"
    /\ op' = "robustZOutliers"
    /\ outliers' = robustZOutliers(entries, topN)
    /\ UNCHANGED <<pctVars, entries, topN, stats, nrmVars, kmVars, appVars, frameVars,
                  gen, share, probe>>

NextOut == RobustZOutliers

SpecOut == InitOut /\ [][NextOut]_vars

\* ---- C4 .. C7: the detector against the statistics in integer arithmetic
\* (the durations of the inputs are integers or NaN)

FiniteDurations(es) == SelectSeq(Durations(es), IsFinite)

\* twice the median of the finite durations
Med2(es) ==
    LET fd == FiniteDurations(es)
        n == Len(fd)
    IN KthSmallest(fd, (n - 1) \div 2 + 1) + KthSmallest(fd, n \div 2 + 1)

\* four times the median of the absolute deviations from the median
Mad4(es) ==
    LET fd == FiniteDurations(es)
        n == Len(fd)
        dev2 == [i \in 1..n |-> Int2Num(Abs(2 * fd[i].n - Med2(es)))]
    IN KthSmallest(dev2, (n - 1) \div 2 + 1) + KthSmallest(dev2, n \div 2 + 1)

\* four times (duration - median), from twice the median
Dist4(med2, e) == 4 * e.duration.n - 2 * med2

\* z = (duration - med) * 0.6745 / mad, with 1e-9 for a zero mad
ExpectedZ(med2, mad4, e) ==
    IF mad4 > 0 THEN Fin(Dist4(med2, e) * 1349, 2000 * mad4, 0)
    ELSE Fin(Dist4(med2, e) * 1349, 8000, 9)

\* z > 2.5: Dist4 * 0.6745 > 2.5 * Mad4; with mad = 1e-9 the right-hand side is
\* 1e-8, below every positive integer multiple of 0.6745
IsAbove(med2, mad4, e) ==
    IF mad4 > 0 THEN Dist4(med2, e) * 1349 > 5000 * mad4
    ELSE Dist4(med2, e) > 0

\* the ids of the records with finite duration and z > 2.5
Flagged(es) ==
    LET med2 == Med2(es)
        mad4 == Mad4(es)
    IN {i \in 1..Len(es) : IsFinite(es[i].duration) /\ IsAbove(med2, mad4, es[i])}

Returned == {outliers[k].entry.id : k \in 1..Len(outliers)}

Detected == op = "robustZOutliers"
Sampled == Len(FiniteDurations(entries)) >= MinSamples

\* C4: robustZOutliers returns the empty sequence whenever fewer than 8 records
\* have a finite duration, whatever their spread and whatever topN; records with
\* a non-finite duration do not count towards the 8.
C4_InsufficientSample ==
    (Detected /\ ~Sampled) => outliers = <<>>

\* eight or more records, seven of finite duration, with durations 0 and 9 among
\* them
C4_Witness ==
    /\ Detected
    /\ Len(entries) >= MinSamples
    /\ Len(FiniteDurations(entries)) = MinSamples - 1
    /\ \E i, j \in 1..Len(entries) :
          entries[i].duration = Int2Num(0) /\ entries[j].duration = Int2Num(9)
    /\ outliers = <<>>

\* C5: for a non-negative integer topN the returned sequence is sorted by score
\* non-increasing and has at most topN elements.
C5_OrderedAndTruncated ==
    (Detected /\ topN >= 0) =>
        /\ Len(outliers) <= topN
        /\ \A k \in 1..(Len(outliers) - 1) : Cmp(outliers[k].z, outliers[k + 1].z) >= 0

\* more records above the threshold than topN = 2, the two kept with different
\* scores and in the opposite order in the input
C5_Witness ==
    /\ Detected
    /\ topN = 2
    /\ Cardinality(Flagged(entries)) > 2
    /\ Len(outliers) = 2
    /\ Cmp(outliers[1].z, outliers[2].z) > 0
    /\ outliers[1].entry.id > outliers[2].entry.id

\* C6: with at least 8 finite durations every record of finite duration is scored
\* z = (duration - med) * 0.6745 / mad and only those with z > 2.5 are kept: each
\* returned record is a record of the input with finite duration, z > 2.5 and
\* that score, no record is returned twice, and when at most topN records have
\* z > 2.5 all of them are returned.
C6_ScoredAndFiltered ==
    (Detected /\ Sampled) =>
        LET med2 == Med2(entries)
            mad4 == Mad4(entries)
            flagged == Flagged(entries)
        IN /\ \A k \in 1..Len(outliers) :
                 LET e == outliers[k].entry
                 IN /\ e.id \in 1..Len(entries) /\ entries[e.id] = e
                    /\ e.id \in flagged
                    /\ mad4 > 0 => outliers[k].z = ExpectedZ(med2, mad4, e)
           /\ Cardinality(Returned) = Len(outliers)
           /\ Cardinality(flagged) <= topN => Returned = flagged

\* a non-zero mad, records on both sides of the median, a record of non-finite
\* duration, and two records returned
C6_Witness ==
    /\ Detected /\ Sampled
    /\ Mad4(entries) > 0
    /\ Len(outliers) = 2
    /\ Returned = Flagged(entries)
    /\ \E i \in 1..Len(entries) : ~IsFinite(entries[i].duration)
    /\ \E i \in 1..Len(entries) :
          IsFinite(entries[i].duration) /\ Dist4(Med2(entries), entries[i]) < 0

\* C7: when the mad of the finite durations is zero, 1e-9 stands for it: every
\* score is the finite (duration - med) * 0.6745 / 1e-9, the records above the
\* median are the ones flagged, and [10 x 8, 1000] returns exactly the record of
\* duration 1000.
C7_ZeroMad ==
    (Detected /\ Sampled /\ Mad4(entries) = 0) =>
        /\ LET med2 == Med2(entries)
           IN \A k \in 1..Len(outliers) :
                 LET e == outliers[k].entry
                 IN /\ outliers[k].z = ExpectedZ(med2, 0, e)
                    /\ IsFinite(outliers[k].z)
                    /\ IsFinite(e.duration) /\ 2 * e.duration.n > med2
        /\ LET flagged == Flagged(entries)
           IN Cardinality(flagged) <= topN => Returned = flagged
        /\ (entries = StartingAtZero(SlowOne) /\ topN >= 1) =>
              outliers = <<[entry |-> entries[9], z |-> Fin(3960 * 1349, 8000, 9)]>>

\* the list [10 x 8, 1000] with the default topN, one record returned
C7_Witness ==
    /\ Detected
    /\ entries = StartingAtZero(SlowOne)
    /\ topN = 10
    /\ Mad4(entries) = 0
    /\ Len(outliers) = 1
    /\ outliers[1].entry.duration = Int2Num(1000)

-----------------------------------------------------------------------------
(* The column standardizer: stats.js, normalizeRows.                        *)
(* A square root is kept as its radicand: [root |-> v] is Math.sqrt(v), and *)
(* a quotient by it is [num |-> x, root |-> v], the number x / sqrt(v);     *)
(* root = 1 is the plain number x.                                          *)

One == Int2Num(1)

\* the integer square root of a perfect square, 0 - 1 for any other integer
RECURSIVE ExactRoot(_, _)
ExactRoot(k, r) ==
    IF r * r = k THEN r ELSE IF r * r > k THEN 0 - 1 ELSE ExactRoot(k, r + 1)

\* Math.sqrt(v)
Sqrt(v) ==
    IF IsNaN(v) \/ v.n < 0 THEN [root |-> NaN]
    ELSE [root |-> v]

\* s || 1 on a square root: sqrt(v) is falsy when it is 0 or NaN
RootOrOne(s) ==
    IF IsNaN(s.root) \/ (IsFinite(s.root) /\ s.root.n = 0) THEN [root |-> One] ELSE s

\* x / s for a square root s
DivRoot(x, s) ==
    LET v == s.root
        plain(y) == [num |-> y, root |-> One]
    IN IF ~IsFinite(v) \/ v.n = 0 \/ ~IsFinite(x) \/ x.n = 0
       THEN plain(Div(x, IF IsFinite(v) /\ v.n # 0 THEN One ELSE v))
       ELSE LET rn == ExactRoot(v.n, 0)
                rd == ExactRoot(v.d, 1)
            IN IF rn > 0 /\ rd > 0 /\ v.e % 2 = 0
               THEN plain(Div(x, [n |-> rn, d |-> rd, e |-> v.e \div 2]))
               ELSE [num |-> x, root |-> v]

\* r[j] as a number: an index past the end of r reads undefined, which is
\* NaN in arithmetic
At(r, j) == IF j <= Len(r) THEN r[j] ELSE NaN

\* the sum of the first k numbers of a, added in order from 0
RECURSIVE SumTo(_, _)
SumTo(a, k) ==
    IF k = 0 THEN Zero ELSE Add(SumTo(a, k - 1), a[k])

\* (mutant) the population denominator n
BesselPopulation(n) == n

\* Math.max(1, n - 1)
Bessel(n) == IF n - 1 > 1 THEN n - 1 ELSE 1

\* normalizeRows(rows), with the columns it computes on the way
normalizeRows(rs) ==
    LET n == Len(rs)
        d == Len(rs[1])
        mu == [j \in 1..d |->
                  Div(SumTo([i \in 1..n |-> At(rs[i], j)], n), Int2Num(n))]
        s2 == [j \in 1..d |->
                  SumTo([i \in 1..n |->
                            Mul(Sub(At(rs[i], j), mu[j]), Sub(At(rs[i], j), mu[j]))], n)]
        var == [j \in 1..d |-> Div(s2[j], Int2Num(Bessel(n)))]
        sd == [j \in 1..d |-> RootOrOne(Sqrt(var[j]))]
    IN [mu |-> mu, s2 |-> s2, var |-> var, sd |-> sd,
        out |-> [i \in 1..n |-> [j \in 1..Len(rs[i]) |->
                    IF j <= d THEN DivRoot(Sub(rs[i][j], mu[j]), sd[j])
                    ELSE [num |-> NaN, root |-> One]]]]

\* ---- the normalizeRows call as a step of the caller

MaxRows == 3

\* 1e200: finite, and its square is not
Huge == [n |-> 1, d |-> 1, e |-> 200]

CellValues == {Int2Num(0), Int2Num(2), Huge, NaN, PosInf}
Widths == {1, 2}

Matrices(V, n, d) == [1..n -> [1..d -> V]]

InitNrm ==
    /\ op = "init"
    /\ \E n \in 1..MaxRows, d \in Widths : rows \in Matrices(CellValues, n, d)
    /\ nrm = <<>>
    /\ IdlePct /\ IdleRec /\ IdleKm /\ IdleApp /\ IdleFrame /\ IdleGen /\ IdleShare /\ IdleProbe

\* r.map(..) for the row rows[i]: an array of its own
Mapped(i) == OwnArray

\* "rows[0].length" is a TypeError on an empty list
NormalizeRows ==
    /\ op = "init"
    /\ IF Len(rows) = 0
       THEN op' = "threw" /\ nrm' = nrm /\ owner' = owner
       ELSE /\ op' = "normalizeRows"
            /\ nrm' = normalizeRows(rows)
            /\ owner' = [owner EXCEPT !.rows = [i \in 1..Len(rows) |-> Mapped(i - 1)]]
    /\ UNCHANGED <<pctVars, recVars, rows, kmVars, appVars, given, gen, share, probe>>

NextNrm == NormalizeRows

SpecNrm == InitNrm /\ [][NextNrm]_vars

\* ---- C10

Normalized == op = "normalizeRows"

\* the standard deviation of column j as computed, before "|| 1"
ComputedSd(j) == Sqrt(nrm.var[j])
IsDegenerate(s) == ~IsFinite(s.root) \/ s.root.n = 0

IsConstant(j) ==
    IsFinite(rows[1][j]) /\ \A i \in 1..Len(rows) : rows[i][j] = rows[1][j]

\* C10: for every column whose computed standard deviation is zero or not finite
\* (NaN or infinite) the divisor used is 1 and the column's output is x - mu_j;
\* a constant column maps to all zeros.
C10_DegenerateDivisor ==
    Normalized =>
        \A j \in 1..Len(rows[1]) :
            /\ IsDegenerate(ComputedSd(j)) =>
                  /\ nrm.sd[j] = [root |-> One]
                  /\ \A i \in 1..Len(rows) :
                        nrm.out[i][j] = [num |-> Sub(rows[i][j], nrm.mu[j]), root |-> One]
            /\ IsConstant(j) =>
                  \A i \in 1..Len(rows) : nrm.out[i][j] = [num |-> Zero, root |-> One]

\* ---- C11

\* the numerators and the squares of the output cells of column j
OutNums(j) == [i \in 1..Len(rows) |-> nrm.out[i][j].num]
OutSquares(j) ==
    [i \in 1..Len(rows) |->
        Div(Mul(nrm.out[i][j].num, nrm.out[i][j].num), nrm.out[i][j].root)]

\* column j has a variance that is a number other than zero
HasVariance(j) == IsFinite(nrm.var[j]) /\ nrm.var[j].n # 0

-----------------------------------------------------------------------------
(* The pseudo-random stream: stats.js, mulberry32.                          *)
(* A 32-bit word is <<hi, lo>>, its two 16-bit halves.  For kmeans the      *)
(* closure's state a is kept modulo 2^32: every use of it goes through a    *)
(* 32-bit conversion, and a call of kmeans draws far fewer values than it   *)
(* takes a to leave the integers a double holds exactly.  The generator     *)
(* with its state as the double it is follows the stream operators.         *)

RECURSIVE Pow2(_)
Pow2(k) == IF k = 0 THEN 1 ELSE 2 * Pow2(k - 1)

Half == 65536

RECURSIVE Xor16(_, _, _)
Xor16(a, b, k) ==
    IF k = 0 THEN 0
    ELSE (((a % 2) + (b % 2)) % 2) + 2 * Xor16(a \div 2, b \div 2, k - 1)

RECURSIVE Or16(_, _, _)
Or16(a, b, k) ==
    IF k = 0 THEN 0
    ELSE (IF (a % 2) + (b % 2) > 0 THEN 1 ELSE 0) + 2 * Or16(a \div 2, b \div 2, k - 1)

\* a + b modulo 2^32
Add32(a, b) ==
    LET lo == a[2] + b[2]
    IN <<(a[1] + b[1] + (lo \div Half)) % Half, lo % Half>>

\* a ^ b and a | c for a constant c below 2^16
Xor32(a, b) == <<Xor16(a[1], b[1], 16), Xor16(a[2], b[2], 16)>>
OrLow(a, c) == <<a[1], Or16(a[2], c, 16)>>

\* a >>> k for 0 < k < 16
Shr32(a, k) ==
    <<a[1] \div Pow2(k), (a[2] \div Pow2(k)) + (a[1] % Pow2(k)) * Pow2(16 - k)>>

\* the 32-bit product of two 16-bit numbers
Mul16(x, y) ==
    LET p0 == x * (y % 256)
        p1 == x * (y \div 256)
        low == p0 + (p1 % 256) * 256
    IN <<((p1 \div 256) + (low \div Half)) % Half, low % Half>>

\* Math.imul(a, b): the low 32 bits of the product
Imul(a, b) ==
    LET m == Mul16(a[2], b[2])
        cross == Mul16(a[1], b[2])[2] + Mul16(a[2], b[1])[2]
    IN <<(m[1] + cross) % Half, m[2]>>

\* 0x6D2B79F5
Increment == <<27947, 31221>>

\* lines 116-118 on the 32 bits t of the state: the 32-bit u of the returned
\* u / 2^32
Temper(t) ==
    LET t1 == Imul(Xor32(t, Shr32(t, 15)), OrLow(t, 1))
        t2 == Xor32(t1, Add32(t1, Imul(Xor32(t1, Shr32(t1, 7)), OrLow(t1, 61))))
    IN Xor32(t2, Shr32(t2, 14))

\* one call of the generator on state a: the new state and the 32-bit u of
\* the returned u / 2^32
mulberryNext(a) ==
    LET a1 == Add32(a, Increment)
    IN [state |-> a1, u |-> Temper(a1)]

\* Math.floor(rand() * n) for the draw u and 0 < n < 2^15
RandIndex(u, n) == (u[1] * n + ((u[2] * n) \div Half)) \div Half

\* rand() * s <= p for the draw u and finite s, p >= 0 of exponent 0:
\* u * (s.n * p.d) <= 2^32 * (p.n * s.d)
RandTimesLeq(u, s, p) ==
    LET x == s.n * p.d
        y == p.n * s.d
        q == u[1] * x + ((u[2] * x) \div Half)
        rem == (u[2] * x) % Half
    IN q < y * Half \/ (q = y * Half /\ rem = 0)

\* ---- the generator with its state as the double it is

(* "a += 0x6D2B79F5" adds to a double that no 32-bit conversion is ever     *)
(* applied to: a grows by the increment with every call.  An integer below  *)
(* 2^64 is <<l0, l1, l2, l3>>, its four 16-bit limbs from the lowest.       *)

\* the carries of a limb sequence taken up
Carried(l) ==
    LET c1 == l[1] \div Half
        c2 == (l[2] + c1) \div Half
        c3 == (l[3] + c2) \div Half
    IN <<l[1] % Half, (l[2] + c1) % Half, (l[3] + c2) % Half, l[4] + c3>>

\* a 32-bit word as an integer, and the low 32 bits of an integer (what ^,
\* >>> and | make of a number)
BigOfWord(w) == <<w[2], w[1], 0, 0>>
ToUint32(b) == <<b[2], b[1]>>

BigAdd(x, y) == Carried([i \in 1..4 |-> x[i] + y[i]])

\* n * 0x6D2B79F5 for n below 2^32
TimesIncrement(n) ==
    LET nl == n % Half
        nh == n \div Half
        p00 == Mul16(nl, Increment[2])
        p01 == Mul16(nl, Increment[1])
        p10 == Mul16(nh, Increment[2])
        p11 == Mul16(nh, Increment[1])
    IN Carried(<<p00[2], p00[1] + p01[2] + p10[2], p01[1] + p10[1] + p11[2], p11[1]>>)

\* 2^53 in the highest limb
Exact53 == 32

\* the double nearest to the integer b below 2^54: b itself below 2^53, and
\* from 2^53 on the nearest even integer, a tie going to the multiple of 4
RoundToDouble(b) ==
    IF b[4] < Exact53 \/ b[1] % 2 = 0 THEN b
    ELSE IF b[1] % 4 = 1 THEN <<b[1] - 1, b[2], b[3], b[4]>>
    ELSE Carried(<<b[1] + 1, b[2], b[3], b[4]>>)

\* a += 0x6D2B79F5
Advanced(a) == RoundToDouble(BigAdd(a, BigOfWord(Increment)))

\* the reference Mulberry32: the state is advanced modulo 2^32
ReferenceNext(r) == mulberryNext(r)

MaxDraws == 8

\* seeds, and how many values a generator has returned when it is looked at:
\* none, or nearly as many as bring its state to 2^53
GenSeeds == {<<0, 0>>, <<0, 1>>, <<0, 1337>>, <<1, 0>>, <<32768, 0>>, <<65535, 65535>>}
LongRun == 4917755
Drawn == {0, LongRun}

\* the generator mulberry32(seed) after n calls, next to the reference
\* generator of that seed after n calls: up to LongRun calls a is seed plus n
\* increments exactly
GenAfter(seed, n) ==
    LET a == BigAdd(BigOfWord(seed), TimesIncrement(n))
    IN [seed |-> seed, n |-> n, a |-> a, ref |-> ToUint32(a), draws |-> 0,
        u |-> <<0, 0>>, refU |-> <<0, 0>>]

InitGen ==
    /\ op = "init"
    /\ \E seed \in GenSeeds, n \in Drawn : gen = GenAfter(seed, n)
    /\ IdlePct /\ IdleRec /\ IdleNrm /\ IdleKm /\ IdleApp /\ IdleFrame
    /\ IdleShare /\ IdleProbe

\* one call of the generator, and one of the reference
Rand ==
    /\ gen.draws < MaxDraws
    /\ op' = "rand"
    /\ LET a1 == Advanced(gen.a)
           r == ReferenceNext(gen.ref)
       IN gen' = [gen EXCEPT !.a = a1, !.u = Temper(ToUint32(a1)),
                             !.ref = r.state, !.refU = r.u,
                             !.n = @ + 1, !.draws = @ + 1]
    /\ UNCHANGED <<pctVars, recVars, nrmVars, kmVars, appVars, frameVars, share, probe>>

NextGen == Rand

SpecGen == InitGen /\ [][NextGen]_vars

\* ---- C17

\* C17: every value a generator returns is u / 2^32 for an integer u in
\* [0, 2^32), and its n-th value is the n-th value of the reference Mulberry32
\* of the same seed, whose state is advanced modulo 2^32, for every n.
C17_MatchesReference ==
    gen.draws > 0 =>
        /\ gen.u \in (0..(Half - 1)) \X (0..(Half - 1))
        /\ gen.u = gen.refU

-----------------------------------------------------------------------------
(* k-means: stats.js, kmeans.  Indices (points, centers, assign values) are *)
(* those of the source, from 0; sequences here are indexed from 1.          *)

(* The matrix kmeans works on may be one normalizeRows returned, so its      *)
(* cells are the quotients [num, root] of the standardizer; a plain number  *)
(* has root 1.  Within a column every cell that is not 0, NaN or infinite   *)
(* has the same root.                                                       *)

Plain(x) == [num |-> x, root |-> One]

\* the number x / sqrt(v) as a cell
Cell(x, v) == IF IsFinite(x) /\ x.n # 0 THEN [num |-> x, root |-> v] ELSE Plain(x)

\* a matrix of plain numbers as a matrix of cells
Cells(m) == [i \in 1..Len(m) |-> [j \in 1..Len(m[i]) |-> Plain(m[i][j])]]

\* r[j]: an index past the end of r reads undefined, NaN in arithmetic
AtCell(r, j) == IF j <= Len(r) THEN r[j] ELSE Plain(NaN)

\* the root two cells of one column have in common
SharedRoot(x, y) == IF x.root # One THEN x.root ELSE y.root

\* (x - y) * (x - y) for two cells of one column
SquaredDiff(x, y) ==
    LET diff == Sub(x.num, y.num)
    IN Div(Mul(diff, diff), SharedRoot(x, y))

\* sqDist(a, b)
RECURSIVE SqDistTo(_, _, _)
SqDistTo(a, b, k) ==
    IF k = 0 THEN Zero
    ELSE Add(SqDistTo(a, b, k - 1), SquaredDiff(a[k], AtCell(b, k)))

sqDist(a, b) == SqDistTo(a, b, Len(a))

\* (mutant) one generator shared by all calls: a call starts from the state
\* the previous call left
mulberry32Stale(seed) == rng

\* mulberry32(seed): the state the new closure starts from
mulberry32(seed) == seed

\* (mutant) a seeding that draws every center uniformly, as it draws the first
WalkIndexUniform(u, dist, sum) == RandIndex(u, Len(dist))

\* the index the walk "r -= dist[i]; if (r <= 0) { idx = i; break; }" ends on
\* for r = rand() * sum: 0 when r never drops to 0 or below (a NaN or infinite
\* sum among them)
WalkIndex(u, dist, sum) ==
    IF ~IsFinite(sum) THEN 0
    ELSE LET hit == {i \in 1..Len(dist) : RandTimesLeq(u, sum, SumTo(dist, i))}
         IN IF hit = {} THEN 0 ELSE (CHOOSE i \in hit : \A j \in hit : i <= j) - 1

\* (mutant) a seeding loop that runs once too often
NeedsCenterInclusive(len, k) == len <= k

\* the loop condition of the seeding: centers.length < k
NeedsCenter(len, k) == len < k

\* the k-means++ loop from the picks made so far (the indices of the points
\* copied into centers) and generator state a
RECURSIVE SeedLoop(_, _, _, _)
SeedLoop(X, k, picks, a) ==
    LET cs == [c \in 1..Len(picks) |-> X[picks[c] + 1]]
    IN IF ~NeedsCenter(Len(cs), k) THEN [centers |-> cs, picks |-> picks, rng |-> a]
       ELSE LET dist == [i \in 1..Len(X) |->
                            MinOf([c \in 1..Len(cs) |-> sqDist(X[i], cs[c])])]
                draw == mulberryNext(a)
                idx == WalkIndex(draw.u, dist, SumTo(dist, Len(X)))
            IN SeedLoop(X, k, Append(picks, idx), draw.state)

\* lines 50-68: the generator and the k-means++ initialisation
Seeding(X, k, a) ==
    LET first == mulberryNext(a)
    IN SeedLoop(X, k, <<RandIndex(first.u, Len(X))>>, first.state)

\* (mutant) a scan that also moves on to a center that is equally near
CloserOrEqual(dd, bestD) == Le(dd, bestD)

\* dd < bestD
Closer(dd, bestD) == Lt(dd, bestD)

\* the scan "for j < k: if (dd < bestD) { bestD = dd; best = j }" from j on
RECURSIVE BestFrom(_, _, _, _, _, _)
BestFrom(x, cs, k, j, best, bestD) ==
    IF j >= k THEN best
    ELSE LET dd == sqDist(x, cs[j + 1])
         IN IF Closer(dd, bestD) THEN BestFrom(x, cs, k, j + 1, j, dd)
            ELSE BestFrom(x, cs, k, j + 1, best, bestD)

\* the assign step: the new assign array
Assigned(X, cs, k) == [i \in 1..Len(X) |-> BestFrom(X[i], cs, k, 0, 0, PosInf)]

\* (mutant) a mean over all points, whichever cluster they are assigned to
MeanOfAll(X, as, c) ==
    [j \in 1..Len(X[1]) |->
        Cell(Div(SumTo([i \in 1..Len(X) |-> AtCell(X[i], j).num], Len(X)), Int2Num(Len(X))),
             One)]

\* the coordinate-wise mean of the points assigned to c, summed in point order
MeanOf(X, as, c) ==
    LET members == SelectSeq([i \in 1..Len(X) |-> i], LAMBDA i : as[i] = c)
        cell(m, j) == AtCell(X[members[m]], j)
        rooted(j) == {m \in 1..Len(members) : cell(m, j).root # One}
    IN [j \in 1..Len(X[1]) |->
           Cell(Div(SumTo([m \in 1..Len(members) |-> cell(m, j).num], Len(members)),
                    Int2Num(Len(members))),
                IF rooted(j) = {} THEN One ELSE cell(CHOOSE m \in rooted(j) : TRUE, j).root)]

\* the update step for the clusters c .. k-1: for each the array next[c] and
\* the index of the point it copies (<<>> when it is a mean), and the
\* generator state after the draws for the empty clusters
RECURSIVE NextCenters(_, _, _, _, _)
NextCenters(X, k, as, c, a) ==
    IF c >= k THEN [made |-> <<>>, rng |-> a]
    ELSE IF \A i \in 1..Len(X) : as[i] # c
    THEN LET draw == mulberryNext(a)
             idx == RandIndex(draw.u, Len(X))
             rest == NextCenters(X, k, as, c + 1, draw.state)
         IN [made |-> <<[center |-> X[idx + 1], pick |-> <<idx>>]>> \o rest.made,
             rng |-> rest.rng]
    ELSE LET rest == NextCenters(X, k, as, c + 1, a)
         IN [made |-> <<[center |-> MeanOf(X, as, c), pick |-> <<>>]>> \o rest.made,
             rng |-> rest.rng]

\* (mutant) a loop without the early exit
AfterRoundNoBreak(chg) == "loop"

\* "if (!changed) break": where the loop stands after a round
AfterRound(chg) == IF chg = 0 THEN "break" ELSE "loop"

\* whether the update step throws: "new Array(k)" is a RangeError for k < 0,
\* and for k = 0 "next[a][j] += .." reads a column of the missing next[0]
RoundThrows(X, k) == k < 0 \/ (k = 0 /\ Len(X) > 0 /\ Len(X[1]) > 0)

\* one round that does not throw, lines 73-101, from the centers cs, the
\* assign array as and the generator state a
Round(X, k, cs, as, a) ==
    LET new == Assigned(X, cs, k)
        next == NextCenters(X, k, new, 0, a)
    IN [assign |-> new,
        changed |-> Cardinality({i \in 1..Len(X) : as[i] # new[i]}),
        centers |-> [c \in 1..Len(cs) |-> IF c <= k THEN next.made[c].center ELSE cs[c]],
        picks |-> [c \in 1..Len(next.made) |-> next.made[c].pick],
        rng |-> next.rng]

\* the loop of lines 72-102 run to its end from the state s after t rounds:
\* the centers, the assign array, the generator state and the number of
\* assignments round t changed.  The next round r is computed once and the
\* rest of the loop runs from it.
RECURSIVE LloydFrom(_, _, _, _, _)
LloydFrom(X, k, iters, s, t) ==
    IF (t > 0 /\ AfterRound(s.changed) = "break") \/ ~(t < iters)
    THEN [threw |-> FALSE, centers |-> s.centers, assign |-> s.assign, rounds |-> t]
    ELSE IF RoundThrows(X, k)
    THEN [threw |-> TRUE, centers |-> s.centers, assign |-> s.assign, rounds |-> t]
    ELSE CHOOSE result \in {LloydFrom(X, k, iters, r, t + 1) :
                                r \in {Round(X, k, s.centers, s.assign, s.rng)}} : TRUE

\* kmeans(X, k, { seed, iters }) as one call
kmeans(X, k, seed, iters) ==
    IF Len(X) = 0 THEN [threw |-> TRUE, centers |-> <<>>, assign |-> <<>>, rounds |-> 0]
    ELSE LET init == Seeding(X, k, mulberry32(seed))
         IN LloydFrom(X, k, iters,
                      [assign |-> [i \in 1..Len(X) |-> 0], changed |-> 0 - 1,
                       centers |-> init.centers, rng |-> init.rng], 0)

\* ---- a caller clustering one matrix, call after call

\* (mutant) no copy: the center is the row X[i] itself
SliceShared(i) == i

\* X[i].slice(): an array of its own
Slice(i) == OwnArray

\* the array objects of the centers after a round that made the arrays next[c]
\* with the picks ps: Array.from's array for a mean, a slice for a reseed
RoundOwners(ps, n, old) ==
    [c \in 1..n |->
        IF c > Len(ps) THEN old[c]
        ELSE IF ps[c] = <<>> THEN OwnArray ELSE Slice(ps[c][1])]

MaxPoints == 3
MaxIters == 3

\* the rows a matrix is made of: one-column rows, or two-column rows
KmRows == {
    {<<Plain(Int2Num(0))>>, <<Plain(Int2Num(1))>>, <<Plain(NaN)>>},
    {<<Plain(Int2Num(0)), Plain(Int2Num(0))>>, <<Plain(Int2Num(3)), Plain(Int2Num(4))>>} }

\* the seeds 1 and 1337
Seeds == {<<0, 1>>, <<0, 1337>>}

InitKm ==
    /\ op = "init"
    /\ \E n \in 1..MaxPoints, R \in KmRows : kmX \in [1..n -> R]
    /\ kmK \in 1..Len(kmX)
    /\ kmIters \in 0..MaxIters
    /\ kmSeed = <<0, 0>>
    /\ pc = "idle" /\ rng = <<0, 0>> /\ centers = <<>> /\ assign = <<>>
    /\ kmT = 0 /\ changed = 0 - 1
    /\ memo = [s \in Seeds |-> <<>>]
    /\ kmPrev = <<>> /\ kmRepeat = FALSE
    /\ IdlePct /\ IdleRec /\ IdleNrm /\ IdleApp /\ IdleFrame /\ IdleGen /\ IdleShare /\ IdleProbe

\* kmeans(X, k, { seed, iters }) up to the loop: lines 50-70.  On an empty X
\* "X[0].length" is a TypeError and the call ends there.
KmeansCall(seed) ==
    /\ pc \in {"idle", "done", "threw"}
    /\ IF Len(kmX) = 0
       THEN /\ pc' = "threw"
            /\ UNCHANGED <<centers, rng, assign, owner>>
       ELSE /\ \E init \in {Seeding(kmX, kmK, mulberry32(seed))} :
                  /\ centers' = init.centers
                  /\ rng' = init.rng
                  /\ owner' = [owner EXCEPT !.centers =
                                   [c \in 1..Len(init.picks) |-> Slice(init.picks[c])]]
            /\ assign' = [i \in 1..Len(kmX) |-> 0]
            /\ pc' = "loop"
    /\ kmSeed' = seed
    /\ kmT' = 0
    /\ changed' = 0 - 1
    /\ kmPrev' = IF pc = "idle" THEN <<>> ELSE kmSeed
    /\ kmRepeat' = (memo[seed] # <<>>)
    /\ op' = "kmeans"
    /\ UNCHANGED <<kmX, kmK, kmIters, memo, pctVars, recVars, nrmVars, appVars, given,
                  gen, share, probe>>

\* one round of the loop: lines 72-102.  A round that throws ends the call
\* without a result; the call's locals are dead from then on and stay as the
\* round found them.
LloydRound ==
    /\ pc = "loop"
    /\ kmT < kmIters
    /\ IF RoundThrows(kmX, kmK)
       THEN /\ pc' = "threw"
            /\ UNCHANGED <<assign, changed, centers, rng, kmT, owner>>
       ELSE /\ \E r \in {Round(kmX, kmK, centers, assign, rng)} :
                  /\ assign' = r.assign
                  /\ changed' = r.changed
                  /\ centers' = r.centers
                  /\ rng' = r.rng
                  /\ pc' = AfterRound(r.changed)
                  /\ owner' = [owner EXCEPT !.centers =
                                   RoundOwners(r.picks, Len(centers), @)]
            /\ kmT' = kmT + 1
    /\ UNCHANGED <<op, kmX, kmK, kmIters, kmSeed, memo, kmPrev, kmRepeat,
                   pctVars, recVars, nrmVars, appVars, given, gen, share, probe>>

\* return { centers, assign }: line 104
KmeansReturn ==
    /\ pc = "break" \/ (pc = "loop" /\ ~(kmT < kmIters))
    /\ pc' = "done"
    /\ memo' = [memo EXCEPT ![kmSeed] =
                   IF @ = <<>> THEN <<[centers |-> centers, assign |-> assign]>> ELSE @]
    /\ UNCHANGED <<op, kmX, kmK, kmIters, kmSeed, rng, centers, assign, kmT, changed,
                   kmPrev, kmRepeat, pctVars, recVars, nrmVars, appVars, frameVars,
                   gen, share, probe>>

NextKm ==
    \/ \E seed \in Seeds : KmeansCall(seed)
    \/ LloydRound
    \/ KmeansReturn

SpecKm == InitKm /\ [][NextKm]_vars

\* ---- the same caller passing a k outside [1, n]: 0 - 1, 0 or n + 1

InitKmOutside ==
    /\ op = "init"
    /\ \E n \in 1..MaxPoints, R \in KmRows : kmX \in [1..n -> R]
    /\ kmK \in {0 - 1, 0, Len(kmX) + 1}
    /\ kmIters \in 0..MaxIters
    /\ kmSeed = <<0, 0>>
    /\ pc = "idle" /\ rng = <<0, 0>> /\ centers = <<>> /\ assign = <<>>
    /\ kmT = 0 /\ changed = 0 - 1
    /\ memo = [s \in Seeds |-> <<>>]
    /\ kmPrev = <<>> /\ kmRepeat = FALSE
    /\ IdlePct /\ IdleRec /\ IdleNrm /\ IdleApp /\ IdleFrame /\ IdleGen /\ IdleShare /\ IdleProbe

SpecKmOutside == InitKmOutside /\ [][NextKm]_vars

\* ---- a caller passing one matrix that is empty or ragged to normalizeRows
\* ---- and to kmeans

RaggedRows == {<<Int2Num(0)>>, <<Int2Num(0), Int2Num(0)>>, <<Int2Num(3), Int2Num(4)>>}

IsRagged(X) == \E i \in 1..Len(X) : Len(X[i]) # Len(X[1])

InitRagged ==
    /\ op = "init"
    /\ \E n \in 0..MaxPoints : rows \in [1..n -> RaggedRows]
    /\ Len(rows) = 0 \/ IsRagged(rows)
    /\ nrm = <<>>
    /\ kmX = Cells(rows)
    /\ kmK \in 1..(IF Len(rows) = 0 THEN 1 ELSE Len(rows))
    /\ kmIters \in 0..MaxIters
    /\ kmSeed = <<0, 0>>
    /\ pc = "idle" /\ rng = <<0, 0>> /\ centers = <<>> /\ assign = <<>>
    /\ kmT = 0 /\ changed = 0 - 1
    /\ memo = [s \in Seeds |-> <<>>]
    /\ kmPrev = <<>> /\ kmRepeat = FALSE
    /\ IdlePct /\ IdleRec /\ IdleApp /\ IdleFrame /\ IdleGen /\ IdleShare /\ IdleProbe

NextRagged == NormalizeRows \/ NextKm

SpecRagged == InitRagged /\ [][NextRagged]_vars

\* what the call that just returned hands to its caller
Result == [centers |-> centers, assign |-> assign]

\* C1: kmeans is deterministic.  Whenever a call returns, its centers and its
\* assign array are exactly those the first call with the same matrix, k,
\* iteration cap and seed returned, whatever calls (with the same or another
\* seed) were made in between.
C1_Deterministic == pc = "done" => memo[kmSeed] = <<Result>>

\* a repeated call returns after a call with the other seed has run in
\* between, and it went through at least one round with several clusters
C1_Witness ==
    /\ pc = "done" /\ kmRepeat
    /\ kmPrev # <<>> /\ kmPrev # kmSeed
    /\ kmK >= 2 /\ kmT >= 1

\* C2: for an n x d matrix and 1 <= k <= n, kmeans returns exactly k centers,
\* each of dimension d, and an assign array of n entries, each an integer in
\* [0, k), also when a cluster ends up empty.
C2_OutputShape ==
    pc = "done" =>
        /\ Len(centers) = kmK
        /\ \A c \in 1..Len(centers) : Len(centers[c]) = Len(kmX[1])
        /\ Len(assign) = Len(kmX)
        /\ \A i \in 1..Len(assign) : assign[i] \in 0..(kmK - 1)

\* a call returns after a round that left some cluster without points
C2_Witness ==
    /\ pc = "done" /\ kmT >= 1
    /\ \E c \in 0..(kmK - 1) : \A i \in 1..Len(assign) : assign[i] # c

\* C3: the Lloyd loop terminates.  It never runs more than iters rounds: every
\* round counts one up towards iters, a round is run only while fewer than
\* iters rounds have run and the round before it (if any) changed some
\* assignment, and once a round has changed none the next step is the return.
C3_LoopTerminates ==
    /\ [](kmT <= kmIters)
    /\ [][kmT' = kmT + 1 => (kmT < kmIters /\ (kmT > 0 => changed > 0))]_vars
    /\ [][(pc = "loop" /\ pc' # "done") => kmT' = kmT + 1]_vars
    /\ [][(pc \notin {"idle", "done"} /\ kmT > 0 /\ changed = 0) => pc' = "done"]_vars

\* the loop stops below the cap: its first round moved points, its second
\* moved none
C3_Witness == pc = "break" /\ kmT = 2 /\ kmT < kmIters /\ changed = 0

\* C12: a call of kmeans with k outside [1, n] fails with an input-validation
\* error: it never returns a clustering result.
C12_RejectsBadK == (kmK < 1 \/ kmK > Len(kmX)) => pc # "done"

\* C13: normalizeRows and kmeans called with an empty or a ragged matrix fail
\* with an input-validation error: neither ever returns a result for it.
C13_RejectsBadMatrix ==
    (Len(kmX) = 0 \/ IsRagged(kmX)) => (op # "normalizeRows" /\ pc # "done")

\* the stepwise call and the call run as one agree on what is returned
KmeansAgrees ==
    pc = "done" =>
        LET km == kmeans(kmX, kmK, kmSeed, kmIters)
        IN ~km.threw /\ km.centers = centers /\ km.assign = assign /\ km.rounds = kmT

-----------------------------------------------------------------------------
(* The application: app.js, recompute and the handlers that call it, with   *)
(* the ids of recorder.js.  A string is the sequence of its characters, the *)
(* id `e${n}` is the number n, an absent or undefined field is <<>> and a   *)
(* present one <<value>>.  The type chips stay as they are at load, so      *)
(* state.enabledTypes keeps its initial value; the text filter changes.     *)

Lower(c) == IF c = "A" THEN "a" ELSE IF c = "B" THEN "b" ELSE c
ToLowerCase(str) == [i \in 1..Len(str) |-> Lower(str[i])]

RECURSIVE Trim(_)
Trim(str) ==
    IF str # <<>> /\ str[1] = " " THEN Trim(Tail(str))
    ELSE IF str # <<>> /\ str[Len(str)] = " " THEN Trim(SubSeq(str, 1, Len(str) - 1))
    ELSE str

Includes(str, q) == \E i \in 0..(Len(str) - Len(q)) : SubSeq(str, i + 1, i + Len(q)) = q

\* filteredEntries()
filteredEntries(es, types, filter) ==
    LET q == ToLowerCase(Trim(filter))
        keep(e) == /\ e.entryType \in types
                   /\ (q = <<>> \/ Includes(ToLowerCase(e.name), q))
    IN SelectSeq(es, keep)

\* e.entryType === 'resource' || e.entryType === 'navigation'
Clusterable(e) == e.entryType \in {"resource", "navigation"}

\* e.transferSize ?? e.encodedBodySize ?? 0
Size(e) ==
    IF e.transferSize # <<>> THEN e.transferSize[1]
    ELSE IF e.encodedBodySize # <<>> THEN e.encodedBodySize[1]
    ELSE Zero

\* Math.log10(x), for the x it is exact on: the integer powers of ten, 0, NaN
\* and the infinities
Log10(x) ==
    IF IsNaN(x) \/ x.n < 0 THEN NaN
    ELSE IF ~IsFinite(x) THEN PosInf
    ELSE IF x.n = 0 THEN NegInf
    ELSE Int2Num(CHOOSE g \in 0..9 : x.d = 1 /\ x.n * Pow10(x.e) = Pow10(g))

\* rows.map(r => [r.x, r.y, Math.log10(1 + r.z)])
Features(rs) ==
    [i \in 1..Len(rs) |->
        <<rs[i].startTime, rs[i].duration, Log10(Add(One, Size(rs[i])))>>]

\* (mutant) clustering only with more than k rows
EnoughRowsStrict(n, k) == n > k

\* rows.length >= state.k
EnoughRows(n, k) == n >= k

\* a Map is the sequence of its <<key, value>> entries in insertion order
MapSet(m, key, val) ==
    IF \E i \in 1..Len(m) : m[i][1] = key
    THEN [i \in 1..Len(m) |-> IF m[i][1] = key THEN <<key, val>> ELSE m[i]]
    ELSE Append(m, <<key, val>>)

\* rows.forEach((r, i) => clusters.set(r.id, km.assign[i])) over the first n rows
RECURSIVE SetAll(_, _, _)
SetAll(rs, as, n) ==
    IF n = 0 THEN <<>> ELSE MapSet(SetAll(rs, as, n - 1), rs[n].id, as[n])

NullClusters == [null |-> TRUE, map |-> <<>>]

AppSeed == <<0, 1337>>
AppIters == 30
OutlierTopN == 12

\* cloneEntry(entry) with the id nextId() returned: resource and navigation
\* entries carry the size fields, the other types only the base fields
cloneEntry(entry, id) ==
    [id |-> id, entryType |-> entry.entryType, name |-> entry.name,
     startTime |-> entry.startTime, duration |-> entry.duration,
     transferSize |-> IF Clusterable(entry) THEN entry.transferSize ELSE <<>>,
     encodedBodySize |-> IF Clusterable(entry) THEN entry.encodedBodySize ELSE <<>>]

\* ---- the page

MaxAppEntries == 2
MaxK == 2
RecomputeEvery == 20

DefaultTypes == {"navigation", "resource", "paint", "longtask"}

\* the performance entries the browser reports
Observed == {
    [entryType |-> "resource", name |-> <<"a", "b">>, startTime |-> Int2Num(0),
     duration |-> Int2Num(2), transferSize |-> <<Int2Num(9)>>,
     encodedBodySize |-> <<Int2Num(9)>>],
    [entryType |-> "navigation", name |-> <<"b">>, startTime |-> Int2Num(1),
     duration |-> Int2Num(5), transferSize |-> <<>>,
     encodedBodySize |-> <<Int2Num(99)>>],
    [entryType |-> "paint", name |-> <<"a">>, startTime |-> Int2Num(1),
     duration |-> Int2Num(0), transferSize |-> <<>>, encodedBodySize |-> <<>>] }

\* the filter texts typed
Filters == {<<>>, <<"A">>}

\* the state after the module has loaded with nothing stored: the boot code
\* ends with recompute() on no entries
InitApp ==
    /\ op = "recompute"
    /\ appEntries = <<>>
    /\ appK \in 1..MaxK
    /\ appTypes = DefaultTypes
    /\ appFilter = <<>>
    /\ clusters = NullClusters
    /\ recording = FALSE /\ recTypes = {}
    /\ nextId = 1
    /\ saved = <<>>
    /\ persistTimer = TRUE
    /\ calls = <<>>
    /\ raised = FALSE
    /\ stats = computeStats(<<>>)
    /\ outliers = <<>>
    /\ entries = <<>> /\ topN = 0
    /\ IdlePct /\ IdleNrm /\ IdleKm /\ IdleFrame /\ IdleGen /\ IdleShare /\ IdleProbe

\* recompute() on the state the handler has set.  calls is the call of
\* normalizeRows and kmeans it made, if any: the feature rows, the matrix X,
\* k and what kmeans returned.  A throw of kmeans ends the handler: it leaves
\* state.clusters and state.outliers as they were and starts no persist timer.
Recomputed(es, types, filter, k) ==
    \E ents \in {filteredEntries(es, types, filter)} :
    \E rs \in {SelectSeq(ents, Clusterable)} :
        /\ stats' = computeStats(ents)
        /\ IF EnoughRows(Len(rs), k)
           THEN \E X \in {normalizeRows(Features(rs)).out} :
                \E km \in {kmeans(X, k, AppSeed, AppIters)} :
                    IF km.threw
                    THEN /\ raised' = TRUE
                         /\ UNCHANGED <<clusters, outliers, persistTimer, calls>>
                    ELSE /\ raised' = FALSE
                         /\ clusters' = [null |-> FALSE,
                                         map |-> SetAll(rs, km.assign, Len(rs))]
                         /\ outliers' = robustZOutliers(ents, OutlierTopN)
                         /\ calls' = <<[rows |-> rs, X |-> X, k |-> k,
                                        centers |-> km.centers, assign |-> km.assign]>>
                         /\ persistTimer' = TRUE
           ELSE /\ raised' = FALSE
                /\ clusters' = NullClusters
                /\ outliers' = robustZOutliers(ents, OutlierTopN)
                /\ calls' = <<>>
                /\ persistTimer' = TRUE

(* The handlers.  Each sets the state it writes itself and op, which tells *)
(* whether it goes on to call recompute(); the step of the page below adds    *)
(* that call.                                                                *)

\* ui.btnStart.onclick; the buffered entries its snapshot delivers are OnEntry
\* steps
StartRecording ==
    /\ ~recording
    /\ recording' = TRUE
    /\ recTypes' = appTypes
    /\ op' = "recompute"
    /\ UNCHANGED <<appEntries, appK, appTypes, appFilter, nextId, saved>>

\* ui.btnStop.onclick
StopRecording ==
    /\ recording
    /\ recording' = FALSE
    /\ recTypes' = {}
    /\ op' = "recompute"
    /\ UNCHANGED <<appEntries, appK, appTypes, appFilter, nextId, saved>>

\* the onEntry callback of the recorder on one observed entry
OnEntry(entry) ==
    /\ recording
    /\ entry.entryType \in recTypes
    /\ Len(appEntries) < MaxAppEntries
    /\ appEntries' = Append(appEntries, cloneEntry(entry, nextId))
    /\ nextId' = nextId + 1
    /\ IF (Len(appEntries) + 1) % RecomputeEvery = 0
       THEN op' = "recompute"
       ELSE op' = "onEntry" /\ UNCHANGED persistTimer
    /\ UNCHANGED <<appK, appTypes, appFilter, recording, recTypes, saved>>

\* ui.kRange.oninput
KRangeInput(k) ==
    /\ appK' = k
    /\ op' = "recompute"
    /\ UNCHANGED <<appEntries, appTypes, appFilter, recording, recTypes, nextId, saved>>

\* ui.filterText.oninput
FilterInput(text) ==
    /\ appFilter' = text
    /\ op' = "recompute"
    /\ UNCHANGED <<appEntries, appK, appTypes, recording, recTypes, nextId, saved>>

\* the timer of persistDebounced fires: the session goes to IndexedDB
PersistTimeout ==
    /\ persistTimer
    /\ persistTimer' = FALSE
    /\ saved' = <<appEntries>>
    /\ op' = "persist"
    /\ UNCHANGED <<appEntries, appK, appTypes, appFilter, recording, recTypes, nextId>>

\* the page is loaded again: the modules start afresh, the slider has some
\* value, loadFromPermalinkOrStorage restores the stored entries and recomputes
PageLoad ==
    /\ nextId' = 1
    /\ recording' = FALSE
    /\ recTypes' = {}
    /\ appTypes' = DefaultTypes
    /\ appFilter' = <<>>
    /\ appK' \in 1..MaxK
    /\ appEntries' = IF saved # <<>> THEN saved[1] ELSE <<>>
    /\ op' = "recompute"
    /\ UNCHANGED saved

\* one step of the page: a handler runs to its end, its recompute() included
NextApp ==
    /\ \/ StartRecording
       \/ StopRecording
       \/ \E entry \in Observed : OnEntry(entry)
       \/ \E k \in 1..MaxK : KRangeInput(k)
       \/ \E text \in Filters : FilterInput(text)
       \/ PersistTimeout
       \/ PageLoad
    /\ IF op' = "recompute"
       THEN Recomputed(appEntries', appTypes', appFilter', appK')
       ELSE UNCHANGED <<stats, clusters, outliers, calls, raised>>
    /\ UNCHANGED <<pctVars, entries, topN, nrmVars, kmVars, frameVars, gen, share, probe>>

SpecApp == InitApp /\ [][NextApp]_vars

\* ---- C14

\* the positions in state.entries of the resource and navigation records that
\* pass the type filter and the text filter
Eligible ==
    {i \in 1..Len(appEntries) :
        /\ appEntries[i].entryType \in {"resource", "navigation"} \cap appTypes
        /\ \/ Trim(appFilter) = <<>>
           \/ Includes(ToLowerCase(appEntries[i].name), ToLowerCase(Trim(appFilter)))}

\* C14: recompute never raises an exception (k >= 1).  After a recompute with
\* fewer than k resource/navigation records passing the filters, neither
\* normalizeRows nor kmeans was called and state.clusters is null; with at
\* least k of them state.clusters is a mapping, made of the assign array that
\* kmeans returned for the standardized rows of exactly those records and
\* that k.
C14_InsufficientSample ==
    /\ ~raised
    /\ op = "recompute" =>
          IF Cardinality(Eligible) < appK
          THEN calls = <<>> /\ clusters = NullClusters
          ELSE /\ ~clusters.null
               /\ Len(calls) = 1
               /\ calls[1].k = appK
               /\ Len(calls[1].rows) = Cardinality(Eligible)
               /\ \A i \in 1..Len(calls[1].rows) :
                     \E e \in Eligible : calls[1].rows[i] = appEntries[e]
               /\ calls[1].assign = kmeans(calls[1].X, appK, AppSeed, AppIters).assign
               /\ \A m \in 1..Len(clusters.map) :
                     \E i \in 1..Len(calls[1].rows) :
                        clusters.map[m] = <<calls[1].rows[i].id, calls[1].assign[i]>>

\* a recompute clustered exactly k records while the filters held another
\* record back
C14_Witness ==
    /\ op = "recompute" /\ ~clusters.null
    /\ Cardinality(Eligible) = appK
    /\ Cardinality(Eligible) < Len(appEntries)

\* ---- C15

\* C15: after a recompute that clustered, the mapping state.clusters holds every
\* id of the feature rows exactly once, it has as many ids as there are
\* feature rows, and each id maps to the cluster index kmeans assigned to the
\* position of that row.
C15_MappingCoversRows ==
    (op = "recompute" /\ calls # <<>>) =>
        LET rs == calls[1].rows
            as == calls[1].assign
            map == clusters.map
        IN /\ \A i \in 1..Len(rs) :
                 Cardinality({m \in 1..Len(map) : map[m][1] = rs[i].id}) = 1
           /\ Len(map) = Len(rs)
           /\ \A i \in 1..Len(rs) : \E m \in 1..Len(map) : map[m] = <<rs[i].id, as[i]>>

-----------------------------------------------------------------------------
(* What the engine leaves of its arguments.  A caller builds a record list  *)
(* and a matrix, calls the four operations on them and then writes into an  *)
(* array it got back.  owner tells of each returned array whether it is one *)
(* the operation created or a row of the caller's matrix; a write to a      *)
(* returned array that is a row of the matrix writes that row.              *)

MaxFrameRows == 2

\* an unsorted list: ten records, two of them slow
FrameEntries ==
    StartingAtZero([i \in 1..10 |-> IF i = 1 THEN Int2Num(1000)
                                    ELSE IF i = 6 THEN Int2Num(500) ELSE Int2Num(10)])

FrameRows == {<<Int2Num(0), Int2Num(0)>>, <<Int2Num(3), Int2Num(4)>>}

\* the value the caller writes
Written == Int2Num(7)

InitFrame ==
    /\ op = "init"
    /\ entries = FrameEntries
    /\ topN = 10 /\ stats = <<>> /\ outliers = <<>>
    /\ \E n \in 1..MaxFrameRows : rows \in [1..n -> FrameRows]
    /\ nrm = <<>>
    /\ kmX = Cells(rows)
    /\ kmK \in 1..Len(kmX)
    /\ kmIters \in {0, MaxIters}
    /\ kmSeed = <<0, 0>>
    /\ pc = "idle" /\ rng = <<0, 0>> /\ centers = <<>> /\ assign = <<>>
    /\ kmT = 0 /\ changed = 0 - 1
    /\ memo = [s \in Seeds |-> <<>>]
    /\ kmPrev = <<>> /\ kmRepeat = FALSE
    /\ given = [entries |-> entries, rows |-> rows, X |-> kmX]
    /\ owner = NoneReturned
    /\ IdlePct /\ IdleApp /\ IdleGen /\ IdleShare /\ IdleProbe

\* the caller's "centers[c][j] = 7" on the result of kmeans
WriteCenter(c, j) ==
    /\ pc = "done"
    /\ \A b \in 1..Len(centers) : \A i \in 1..Len(centers[b]) : centers[b][i] # Plain(Written)
    /\ centers' = [centers EXCEPT ![c][j] = Plain(Written)]
    /\ kmX' = IF owner.centers[c] = OwnArray THEN kmX
              ELSE [kmX EXCEPT ![owner.centers[c] + 1][j] = Plain(Written)]
    /\ UNCHANGED <<op, kmK, kmIters, kmSeed, pc, rng, assign, kmT, changed, memo, kmPrev,
                   kmRepeat, pctVars, recVars, nrmVars, appVars, frameVars, gen, share, probe>>

\* the caller's "out[i][j] = 7" on the result of normalizeRows
WriteRow(i, j) ==
    /\ op = "normalizeRows"
    /\ \A b \in 1..Len(nrm.out) : \A a \in 1..Len(nrm.out[b]) : nrm.out[b][a] # Plain(Written)
    /\ nrm' = [nrm EXCEPT !.out[i][j] = Plain(Written)]
    /\ rows' = IF owner.rows[i] = OwnArray THEN rows
               ELSE [rows EXCEPT ![owner.rows[i] + 1][j] = Written]
    /\ UNCHANGED <<op, pctVars, recVars, kmVars, appVars, frameVars, gen, share, probe>>

NextFrame ==
    \/ ComputeStats
    \/ RobustZOutliers
    \/ NormalizeRows
    \/ KmeansCall(AppSeed)
    \/ LloydRound
    \/ KmeansReturn
    \/ \E c \in 1..Len(centers) : \E j \in 1..Len(centers[c]) : WriteCenter(c, j)
    \/ \E i \in 1..Len(rows) : \E j \in 1..Len(rows[i]) : WriteRow(i, j)

SpecFrame == InitFrame /\ [][NextFrame]_vars

\* ---- C16

\* C16: no engine operation mutates its arguments.  Whatever calls of
\* computeStats, robustZOutliers, normalizeRows and kmeans were made, the
\* record list (records and order) and the rows of the matrix are as the
\* caller built them; every center and every standardized row returned is an
\* array of its own, so also after the caller wrote into a returned array the
\* matrix is as it was.
C16_ArgumentsUntouched ==
    /\ entries = given.entries
    /\ rows = given.rows
    /\ kmX = given.X
    /\ \A c \in 1..Len(owner.centers) : owner.centers[c] = OwnArray
    /\ \A i \in 1..Len(owner.rows) : owner.rows[i] = OwnArray

\* after robustZOutliers found the slow records, kmeans returned its seeding
\* centers, copies of points, without running a round, and the caller has
\* written into one of them
C16_Witness ==
    /\ Len(outliers) = 2
    /\ pc = "done" /\ kmT = 0
    /\ \E c \in 1..Len(centers) : \E j \in 1..Len(centers[c]) : centers[c][j] = Plain(Written)

\* ---- C20

\* the squared distance of point i to the j-th of the current centers
DistanceTo(i, j) == sqDist(kmX[i], centers[j])

\* C20: in every assign step each point is assigned to a center such that no
\* current center is nearer in squared Euclidean distance, and no center of
\* a lower index is at the same distance.
C20_AssignNearest ==
    [][(pc = "loop" /\ kmT' = kmT + 1) =>
           \A i \in 1..Len(kmX) :
               /\ assign'[i] \in 0..(kmK - 1)
               /\ \A j \in 1..kmK : ~Lt(DistanceTo(i, j), DistanceTo(i, assign'[i] + 1))
               /\ \A j \in 1..assign'[i] :
                      ~NumEq(DistanceTo(i, j), DistanceTo(i, assign'[i] + 1))]_vars

\* the first round has run on the centers of the seeding, two of which were
\* equally near some point and nearer than center 0: the point went to the
\* lower of the two
C20_Witness ==
    /\ pc \in {"loop", "break"} /\ kmT = 1
    /\ \E seeded \in {Seeding(kmX, kmK, mulberry32(kmSeed)).centers} :
       \E i \in 1..Len(kmX) : \E j \in 1..kmK :
           /\ assign[i] > 0
           /\ j > assign[i] + 1
           /\ NumEq(sqDist(kmX[i], seeded[j]), sqDist(kmX[i], seeded[assign[i] + 1]))

-----------------------------------------------------------------------------
(* End to end: a caller standardizes a matrix and clusters the result, as   *)
(* recompute does, run after run.                                           *)

\* iters = 25, the default of kmeans
DefaultIters == 25

\* the two kinds of row of the scenario
E2ERows == {<<Int2Num(0), Int2Num(0), Int2Num(0)>>,
            <<Int2Num(100), Int2Num(100), Int2Num(2)>>}

Scenario == <<<<Int2Num(0), Int2Num(0), Int2Num(0)>>,
              <<Int2Num(0), Int2Num(0), Int2Num(0)>>,
              <<Int2Num(100), Int2Num(100), Int2Num(2)>>,
              <<Int2Num(100), Int2Num(100), Int2Num(2)>>>>

\* the matrices of as many rows as the scenario, made of its rows
InitE2E ==
    /\ op = "init"
    /\ rows \in [1..Len(Scenario) -> E2ERows]
    /\ nrm = <<>>
    /\ kmX = <<>>
    /\ kmK = 2
    /\ kmIters \in {DefaultIters, AppIters}
    /\ kmSeed = <<0, 0>>
    /\ pc = "idle" /\ rng = <<0, 0>> /\ centers = <<>> /\ assign = <<>>
    /\ kmT = 0 /\ changed = 0 - 1
    /\ memo = [s \in Seeds |-> <<>>]
    /\ kmPrev = <<>> /\ kmRepeat = FALSE
    /\ IdlePct /\ IdleRec /\ IdleApp /\ IdleFrame /\ IdleGen /\ IdleShare /\ IdleProbe

\* const X = normalizeRows(rows): the matrix kmeans is called on
Standardize ==
    /\ op = "init"
    /\ op' = "normalizeRows"
    /\ nrm' = normalizeRows(rows)
    /\ kmX' = nrm'.out
    /\ owner' = [owner EXCEPT !.rows = [i \in 1..Len(rows) |-> Mapped(i - 1)]]
    /\ UNCHANGED <<pctVars, recVars, rows, kmK, kmIters, kmSeed, pc, rng, centers, assign,
                   kmT, changed, memo, kmPrev, kmRepeat, appVars, given, gen, share, probe>>

NextE2E ==
    \/ Standardize
    \/ \E seed \in Seeds : op # "init" /\ KmeansCall(seed)
    \/ LloydRound
    \/ KmeansReturn

SpecE2E == InitE2E /\ [][NextE2E]_vars

\* ---- C18

\* C18: normalizeRows followed by kmeans with k = 2 and seed 1337 on the rows
\* [[0,0,0],[0,0,0],[100,100,2],[100,100,2]] puts rows 0 and 1 into one
\* cluster, rows 2 and 3 into one cluster and the two pairs into different
\* clusters, and every repeated run returns what the first run returned.
C18_EndToEnd ==
    (pc = "done" /\ rows = Scenario /\ kmSeed = AppSeed) =>
        /\ assign[1] = assign[2]
        /\ assign[3] = assign[4]
        /\ assign[1] # assign[3]
        /\ memo[kmSeed] = <<Result>>

\* a repeated run on the scenario has returned, a run with seed 1 in between
C18_Witness ==
    /\ pc = "done" /\ rows = Scenario /\ kmSeed = AppSeed
    /\ kmRepeat /\ kmPrev = <<0, 1>>

-----------------------------------------------------------------------------
(* The k-means++ seeding on its own: small and very large coordinates, and  *)
(* a seed whose second draw is 0.                                           *)

\* the one-column rows: 0, 1 and 1e200, whose squared distance to the other
\* two is Infinity
SeedRows == {<<Plain(Int2Num(0))>>, <<Plain(Int2Num(1))>>, <<Plain(Huge)>>}

\* the seeds 1337 and 631835670; the second call of mulberry32(631835670)
\* leaves a = 2^32, t = 0 after the 32-bit conversion, and returns 0
SeedSeeds == {<<0, 1337>>, <<9641, 3094>>}

InitSeed ==
    /\ op = "init"
    /\ \E n \in 1..MaxPoints : kmX \in [1..n -> SeedRows]
    /\ kmK \in 1..Len(kmX)
    /\ kmIters \in 0..1
    /\ kmSeed = <<0, 0>>
    /\ pc = "idle" /\ rng = <<0, 0>> /\ centers = <<>> /\ assign = <<>>
    /\ kmT = 0 /\ changed = 0 - 1
    /\ memo = [s \in SeedSeeds |-> <<>>]
    /\ kmPrev = <<>> /\ kmRepeat = FALSE
    /\ IdlePct /\ IdleRec /\ IdleNrm /\ IdleApp /\ IdleFrame /\ IdleGen /\ IdleShare /\ IdleProbe

NextSeed ==
    \/ \E seed \in SeedSeeds : KmeansCall(seed)
    \/ LloydRound
    \/ KmeansReturn

SpecSeed == InitSeed /\ [][NextSeed]_vars

\* ---- C19

\* the u of the c-th value of the stream of a seed
RECURSIVE StateAfter(_, _)
StateAfter(seed, c) == IF c = 0 THEN seed ELSE mulberryNext(StateAfter(seed, c - 1)).state

DrawOf(seed, c) == mulberryNext(StateAfter(seed, c - 1)).u

\* the squared distance of the row x to the nearest of the centers chosen
\* before the c-th
NearestChosen(x, c) == MinOf([b \in 1..(c - 1) |-> sqDist(x, centers[b])])

\* the threshold of the c-th center minus the squared distances of the
\* points up to the i-th has dropped to 0 or below
Dropped(c, i) ==
    LET dist == [j \in 1..Len(kmX) |-> NearestChosen(kmX[j], c)]
        sum == SumTo(dist, Len(kmX))
    IN IsFinite(sum) /\ RandTimesLeq(DrawOf(kmSeed, c), sum, SumTo(dist, i))

\* C19: after the seeding the first center is a copy of X[floor(rand()*n)];
\* each later center is a copy of the first point, in input order, at which
\* r = rand() * sum(dist) minus the accumulated squared distances has dropped
\* to 0 or below; and a later center is never a point at distance 0 from the
\* centers chosen before it while some point is at a positive distance.
C19_Seeding ==
    (pc = "loop" /\ kmT = 0) =>
        /\ Len(centers) = kmK
        /\ \A c \in 1..kmK : owner.centers[c] = OwnArray
        /\ centers[1] = kmX[RandIndex(DrawOf(kmSeed, 1), Len(kmX)) + 1]
        /\ \A c \in 2..kmK :
               /\ \E i \in 1..Len(kmX) :
                      /\ centers[c] = kmX[i]
                      /\ Dropped(c, i)
                      /\ \A j \in 1..(i - 1) : ~Dropped(c, j)
               /\ NearestChosen(centers[c], c) = Zero =>
                      \A i \in 1..Len(kmX) : ~Lt(Zero, NearestChosen(kmX[i], c))

-----------------------------------------------------------------------------
(* The update step of a round, stated on the step itself.                   *)

\* ---- C21

\* the points the round has assigned to cluster c, in input order
MembersOf(c) == SelectSeq([i \in 1..Len(kmX) |-> i], LAMBDA i : assign'[i] = c)

\* the clusters without a point that come before cluster c
EmptyBefore(c) == {b \in 0..(c - 1) : MembersOf(b) = <<>>}

\* C21: after every update step each center c with a point assigned is the
\* coordinate-wise mean of exactly the points now assigned to c (the sum of
\* their cells over their number), each center without a point is a copy of
\* X[floor(rand()*n)] for the next value of the call's generator, and the
\* generator has advanced by one value per empty cluster and by no other.
C21_UpdateStep ==
    [][(pc = "loop" /\ kmT' = kmT + 1) =>
           /\ rng' = StateAfter(rng, Cardinality(EmptyBefore(kmK)))
           /\ \A c \in 0..(kmK - 1) :
                  IF MembersOf(c) = <<>>
                  THEN /\ centers'[c + 1] =
                              kmX[RandIndex(DrawOf(rng, Cardinality(EmptyBefore(c)) + 1),
                                            Len(kmX)) + 1]
                       /\ owner'.centers[c + 1] = OwnArray
                  ELSE /\ centers'[c + 1] = MeanOf(kmX, assign', c)
                       /\ \A j \in 1..Len(kmX[1]) :
                              LET cells == [m \in 1..Len(MembersOf(c)) |->
                                                kmX[MembersOf(c)[m]][j].num]
                                  total == SumTo(cells, Len(cells))
                              IN IsFinite(total) =>
                                     NumEq(Mul(centers'[c + 1][j].num,
                                               Int2Num(Len(cells))), total)]_vars

\* a first round has left one cluster with two points or more and another
\* with none: the generator stands one value per empty cluster behind the
\* seeding
C21_Witness ==
    /\ pc \in {"loop", "break"} /\ kmT = 1
    /\ \E c \in 0..(kmK - 1) : Cardinality({i \in 1..Len(kmX) : assign[i] = c}) >= 2
    /\ \E empty \in SUBSET (0..(kmK - 1)) :
           /\ empty # {}
           /\ empty = {c \in 0..(kmK - 1) : \A i \in 1..Len(kmX) : assign[i] # c}
           /\ rng = StateAfter(mulberry32(kmSeed), kmK + Cardinality(empty))

-----------------------------------------------------------------------------
(* Seven points in the plane and four clusters: a case where a round leaves *)
(* a cluster empty that stays empty in the round after it.                  *)

\* [[6,1],[0,1],[2,2],[1,0],[0,0],[3,3],[3,2]]
LatePoints == <<<<Plain(Int2Num(6)), Plain(Int2Num(1))>>,
                <<Plain(Int2Num(0)), Plain(Int2Num(1))>>,
                <<Plain(Int2Num(2)), Plain(Int2Num(2))>>,
                <<Plain(Int2Num(1)), Plain(Int2Num(0))>>,
                <<Plain(Int2Num(0)), Plain(Int2Num(0))>>,
                <<Plain(Int2Num(3)), Plain(Int2Num(3))>>,
                <<Plain(Int2Num(3)), Plain(Int2Num(2))>>>>

\* the seeds 1116 and 1337
LateSeeds == {<<0, 1116>>, <<0, 1337>>}

\* the first four to seven of the points
InitLate ==
    /\ op = "init"
    /\ \E n \in 4..Len(LatePoints) : kmX = SubSeq(LatePoints, 1, n)
    /\ kmK \in 2..4
    /\ kmIters \in 0..MaxIters
    /\ kmSeed = <<0, 0>>
    /\ pc = "idle" /\ rng = <<0, 0>> /\ centers = <<>> /\ assign = <<>>
    /\ kmT = 0 /\ changed = 0 - 1
    /\ memo = [s \in LateSeeds |-> <<>>]
    /\ kmPrev = <<>> /\ kmRepeat = FALSE
    /\ IdlePct /\ IdleRec /\ IdleNrm /\ IdleApp /\ IdleFrame /\ IdleGen /\ IdleShare /\ IdleProbe

NextLate ==
    \/ \E seed \in LateSeeds : KmeansCall(seed)
    \/ LloydRound
    \/ KmeansReturn

SpecLate == InitLate /\ [][NextLate]_vars

\* ---- C22

\* C22: when kmeans stops because a round changed no assignment, every point
\* is assigned to the lowest-index center of minimum squared distance among
\* the centers the call returns.
C22_ConsistentResult ==
    (pc \in {"break", "done"} /\ changed = 0) =>
        \A i \in 1..Len(kmX) :
            /\ \A j \in 1..kmK : ~Lt(DistanceTo(i, j), DistanceTo(i, assign[i] + 1))
            /\ \A j \in 1..assign[i] :
                   ~NumEq(DistanceTo(i, j), DistanceTo(i, assign[i] + 1))

-----------------------------------------------------------------------------
(* The summary statistics as the diagnostics panel displays them.           *)

\* ---- C23

\* s.maxTime - s.minTime, the displayed time span
TimeSpan == Sub(stats.maxTime, stats.minTime)

\* C23: for every record list, records with a missing or non-finite
\* startTime or duration included, computeStats returns minTime <= maxTime
\* and p50Duration <= p95Duration, and the time span maxTime - minTime is not
\* negative.
C23_OrderedStats ==
    op = "computeStats" =>
        /\ Le(stats.minTime, stats.maxTime)
        /\ Le(stats.p50Duration, stats.p95Duration)
        /\ ~Lt(TimeSpan, Zero)

-----------------------------------------------------------------------------
(* The identity of the records of the page.                                 *)

\* ---- C24

\* C24: after any sequence of session restores, recordings and page loads,
\* recording after a restore on a fresh page load included, the entries of
\* state.entries have pairwise distinct ids.
C24_DistinctIds ==
    \A i, j \in 1..Len(appEntries) : appEntries[i].id = appEntries[j].id => i = j

-----------------------------------------------------------------------------
(* The session codec: encodeSession and decodeSession.                      *)
(*                                                                          *)
(* A JavaScript value that is not an object is [t, n, s]: its type, and its *)
(* number or string.  An object is the sequence of its properties, an array *)
(* of records the sequence of those.  A JSON text is modelled by the value  *)
(* it denotes, or "invalid" when it denotes none; JSON has no undefined and *)
(* no NaN or Infinity.                                                      *)

JsUndefined == [t |-> "undefined", n |-> Zero, s |-> ""]
JsNull == [t |-> "null", n |-> Zero, s |-> ""]
JsNumber(x) == [t |-> "number", n |-> x, s |-> ""]
JsString(x) == [t |-> "string", n |-> Zero, s |-> x]
JsBoolean(b) == [t |-> "boolean", n |-> Zero, s |-> IF b THEN "true" ELSE "false"]

\* ToBoolean(v), the test of v || w
Truthy(v) ==
    CASE v.t = "number" -> ~IsNaN(v.n) /\ ~NumEq(v.n, Zero)
      [] v.t = "string" -> v.s # ""
      [] v.t = "boolean" -> v.s = "true"
      [] OTHER -> FALSE

\* v || w
ValueOr(v, w) == IF Truthy(v) THEN v ELSE w

\* an array, or a value that is not one
JsArray(items) == [isArray |-> TRUE, items |-> items, val |-> JsUndefined]
NotArray(v) == [isArray |-> FALSE, items |-> <<>>, val |-> v]

\* JSON.stringify of a value inside an object or array: a non-finite number
\* is written as null
JsonValue(v) == IF v.t = "number" /\ ~IsFinite(v.n) THEN JsNull ELSE v

\* JSON.stringify of a record: a property whose value is undefined is left out
JsonObject(props) ==
    LET kept == SelectSeq(props, LAMBDA q : q.val.t # "undefined")
    IN [i \in 1..Len(kept) |-> [key |-> kept[i].key, val |-> JsonValue(kept[i].val)]]

\* JSON.stringify(safe) for the object literal of encodeSession
JsonStringify(safe) ==
    [kind |-> "object",
     v |-> JsonValue(safe.v),
     startedAt |-> JsonValue(safe.startedAt),
     savedAt |-> JsonValue(safe.savedAt),
     notes |-> JsonValue(safe.notes),
     entries |-> JsArray([i \in 1..Len(safe.entries.items) |->
                              JsonObject(safe.entries.items[i])])]

\* Array.isArray(session.entries) ? session.entries : []
EntriesOrEmpty(e) == IF e.isArray THEN e ELSE JsArray(<<>>)

\* encodeSession(session), Date.now() returning now
encodeSession(session, now) ==
    JsonStringify([v |-> JsNumber(One),
                   startedAt |-> ValueOr(session.startedAt, JsNumber(now)),
                   savedAt |-> ValueOr(session.savedAt, JsNumber(now)),
                   notes |-> ValueOr(session.notes, JsString("")),
                   entries |-> EntriesOrEmpty(session.entries)])

\* the object of a JSON text of kind "object": a property the text does not
\* have reads as undefined
JsonParse(text) ==
    [v |-> text.v, startedAt |-> text.startedAt, savedAt |-> text.savedAt,
     notes |-> text.notes, entries |-> text.entries]

NoSession == [v |-> JsUndefined, startedAt |-> JsUndefined, savedAt |-> JsUndefined,
              notes |-> JsUndefined, entries |-> NotArray(JsUndefined)]

Thrown(error) == [threw |-> TRUE, error |-> error, obj |-> NoSession]

\* (mutant) a decoder that returns obj.entries as it finds it
decodedEntriesAsFound(e) == e

\* if (!Array.isArray(obj.entries)) obj.entries = []
decodedEntries(e) == IF e.isArray THEN e ELSE JsArray(<<>>)

\* decodeSession(json)
decodeSession(json) ==
    IF json.kind = "invalid" THEN Thrown("SyntaxError")
    ELSE IF json.kind \in {"null", "number", "string", "boolean"}
    THEN Thrown("bad session")
    ELSE IF json.kind = "array" THEN Thrown("unsupported session version")
    ELSE LET obj == JsonParse(json)
         IN IF ~(obj.v.t = "number" /\ NumEq(obj.v.n, One))
            THEN Thrown("unsupported session version")
            ELSE [threw |-> FALSE, error |-> "",
                  obj |-> [obj EXCEPT !.entries = decodedEntries(@)]]

\* ---- a caller encoding a session and decoding the text, or decoding a
\* ---- text it got from elsewhere

MaxShared == 2

\* the records of a session: a start time that is a number or NaN, a
\* duration that is a number or missing
SharedEntries ==
    {<<[key |-> "id", val |-> JsString("e1")],
       [key |-> "startTime", val |-> st],
       [key |-> "duration", val |-> du]>> :
        st \in {JsNumber(Int2Num(1)), JsNumber(NaN)},
        du \in {JsNumber(Int2Num(2)), JsUndefined}}

\* sessions: notes that are missing, empty or a text, a start that is missing
\* or set, entries that are an array or missing
Sessions ==
    {[v |-> JsNumber(One), startedAt |-> at, savedAt |-> JsUndefined, notes |-> notes,
      entries |-> es] :
        at \in {JsUndefined, JsNumber(Int2Num(3))},
        notes \in {JsUndefined, JsString(""), JsString("n")},
        es \in {JsArray(items) : items \in SeqsUpTo(SharedEntries, MaxShared)}
                   \cup {NotArray(JsUndefined)}}

\* a JSON text that is no object
OtherText(kind) ==
    [kind |-> kind, v |-> JsUndefined, startedAt |-> JsUndefined, savedAt |-> JsUndefined,
     notes |-> JsUndefined, entries |-> NotArray(JsUndefined)]

\* JSON texts from elsewhere: no JSON at all, a value that is no object, and
\* objects with v missing, 1, 2 or "1" and entries missing, a string or an array
Texts ==
    {OtherText(kind) : kind \in {"invalid", "null", "number", "string", "boolean", "array"}}
    \cup {[OtherText("object") EXCEPT !.v = v, !.entries = es] :
              v \in {JsUndefined, JsNumber(One), JsNumber(Int2Num(2)), JsString("1")},
              es \in {NotArray(JsUndefined), NotArray(JsString("x")), JsArray(<<>>)}}

\* the values of Date.now()
Clock == {Int2Num(7)}

NoText == OtherText("none")
NoResult == Thrown("")

InitShare ==
    /\ op = "init"
    /\ \/ \E session \in Sessions :
              share = [from |-> "session", session |-> session, json |-> NoText,
                       out |-> NoResult]
       \/ \E text \in Texts :
              share = [from |-> "text", session |-> NoSession, json |-> text,
                       out |-> NoResult]
    /\ IdlePct /\ IdleRec /\ IdleNrm /\ IdleKm /\ IdleApp /\ IdleFrame /\ IdleGen /\ IdleProbe

\* const json = encodeSession(session)
EncodeSession ==
    /\ op = "init" /\ share.from = "session"
    /\ op' = "encodeSession"
    /\ \E now \in Clock : share' = [share EXCEPT !.json = encodeSession(share.session, now)]
    /\ UNCHANGED <<pctVars, recVars, nrmVars, kmVars, appVars, frameVars, gen, probe>>

\* const session = decodeSession(json)
DecodeSession ==
    /\ \/ op = "encodeSession"
       \/ op = "init" /\ share.from = "text"
    /\ op' = "decodeSession"
    /\ share' = [share EXCEPT !.out = decodeSession(share.json)]
    /\ UNCHANGED <<pctVars, recVars, nrmVars, kmVars, appVars, frameVars, gen, probe>>

NextShare == EncodeSession \/ DecodeSession

SpecShare == InitShare /\ [][NextShare]_vars

\* ---- C25

\* a session was encoded and the text decoded
RoundTripDone == op = "decodeSession" /\ share.from = "session"

\* decodeSession throws for every JSON value that is no object or whose v is
\* not 1, and an object it returns has an array as entries
DecodeRejects ==
    op = "decodeSession" =>
        /\ (share.json.kind # "object" \/ share.json.v # JsNumber(One)) => share.out.threw
        /\ ~share.out.threw => share.out.obj.entries.isArray

WrittenAsJson(got, src) ==
    /\ {got[b].key : b \in 1..Len(got)} =
           {src[a].key : a \in {a \in 1..Len(src) : src[a].val # JsUndefined}}
    /\ \A b, c \in 1..Len(got) : got[b].key = got[c].key => b = c
    /\ \A a \in 1..Len(src), b \in 1..Len(got) :
           src[a].key = got[b].key =>
               got[b].val = IF src[a].val.t = "number" /\ ~IsFinite(src[a].val.n)
                            THEN JsNull ELSE src[a].val

-----------------------------------------------------------------------------
(* The remote probe: the token of the page, the 'new probe' button and the  *)
(* listener for window messages.                                            *)

MaxMessages == 2
RemoteRecomputeEvery == 40

\* the values randToken() returns
Tokens == {"t1", "t2"}

\* (mutant) a listener that accepts any token
TokenIgnored(d, token) == TRUE

\* d.token !== state.probeToken does not hold
TokenMatches(d, token) == d.token = token

\* !d || d.__perfscope !== true does not hold: flag is "true" for the boolean
\* true, "truthy" for another truthy value, "missing" without the property
FlaggedData(d) == ~d.null /\ d.flag = "true"

\* d.payload?.href || ev.origin || 'remote'
SourceOf(ev) ==
    IF ev.data.href # "" THEN ev.data.href
    ELSE IF ev.origin # "" THEN ev.origin ELSE "remote"

\* the id of the n-th entry pushed: crypto.randomUUID(), taken to be fresh
Uuid(n) == 0 - n

\* { id: .., ...e, _remote: true }
RemoteEntry(e, n) ==
    [id |-> IF e.id # <<>> THEN e.id[1] ELSE Uuid(n), entryType |-> e.entryType,
     name |-> e.name, startTime |-> e.startTime, duration |-> e.duration,
     transferSize |-> e.transferSize, encodedBodySize |-> e.encodedBodySize,
     remote |-> TRUE]

\* Array.isArray(d.payload?.entries) ? d.payload.entries : []
Incoming(d) == IF d.entries.isArray THEN d.entries.items ELSE <<>>

\* an entry as the probe serializes it, and one that brings an id along
Serialized ==
    {[id |-> id, entryType |-> "resource", name |-> <<"a">>, startTime |-> Int2Num(0),
      duration |-> Int2Num(2), transferSize |-> <<Int2Num(9)>>,
      encodedBodySize |-> <<Int2Num(9)>>] : id \in {<<>>, <<1>>}}

\* the message events: data that is null, or an object with or without the
\* flag, a token, a kind and a payload
Events ==
    {[origin |-> "o",
      data |-> [null |-> TRUE, flag |-> "missing", token |-> "", kind |-> "", href |-> "",
                entries |-> [isArray |-> FALSE, items |-> <<>>]]]}
    \cup {[origin |-> origin,
           data |-> [null |-> FALSE, flag |-> flag, token |-> token, kind |-> kind,
                     href |-> href, entries |-> es]] :
              origin \in {"", "o"}, flag \in {"true", "truthy", "missing"},
              token \in Tokens \cup {""}, kind \in {"hello", "entries", "other"},
              href \in {"", "h"},
              es \in {[isArray |-> FALSE, items |-> <<>>], [isArray |-> TRUE, items |-> <<>>]}
                         \cup {[isArray |-> TRUE, items |-> <<e>>] : e \in Serialized}}

\* the page after boot: state.probeToken = randToken().  replaced holds the
\* tokens the button has replaced, seq counts the messages received, flagged
\* and token tell of the last message
InitProbe ==
    /\ op = "recompute"
    /\ appEntries = <<>>
    /\ appK = 1
    /\ appTypes = DefaultTypes
    /\ appFilter = <<>>
    /\ clusters = NullClusters
    /\ recording = FALSE /\ recTypes = {}
    /\ nextId = 1
    /\ saved = <<>>
    /\ persistTimer = TRUE
    /\ calls = <<>>
    /\ raised = FALSE
    /\ stats = computeStats(<<>>)
    /\ outliers = <<>>
    /\ entries = <<>> /\ topN = 0
    /\ \E token \in Tokens :
           probe = [token |-> token, connected |-> FALSE, source |-> "null",
                    replaced |-> {}, seq |-> 0, flagged |-> FALSE, last |-> ""]
    /\ IdlePct /\ IdleNrm /\ IdleKm /\ IdleFrame /\ IdleGen /\ IdleShare

\* the click listener of ui.btnNewProbe
NewProbe ==
    /\ \E token \in Tokens :
           probe' = [probe EXCEPT !.token = token, !.connected = FALSE, !.source = "null",
                                  !.replaced = (@ \cup {probe.token}) \ {token}]
    /\ op' = "newProbe"
    /\ UNCHANGED <<appEntries, appK, appTypes, appFilter, recording, recTypes, nextId, saved,
                   persistTimer>>

\* the message listener of the window
OnMessage(ev) ==
    /\ probe.seq < MaxMessages
    /\ Len(appEntries) + Len(Incoming(ev.data)) <= MaxAppEntries
    /\ IF ~FlaggedData(ev.data) \/ ~TokenMatches(ev.data, probe.token)
       THEN /\ probe' = [probe EXCEPT !.seq = @ + 1, !.flagged = FlaggedData(ev.data),
                                      !.last = ev.data.token]
            /\ op' = "message"
            /\ UNCHANGED <<appEntries, persistTimer>>
       ELSE /\ probe' = [probe EXCEPT !.seq = @ + 1, !.flagged = FlaggedData(ev.data),
                                      !.last = ev.data.token,
                                      !.connected = TRUE, !.source = SourceOf(ev)]
            /\ IF ev.data.kind = "entries"
               THEN /\ appEntries' = appEntries \o
                           [i \in 1..Len(Incoming(ev.data)) |->
                               RemoteEntry(Incoming(ev.data)[i], Len(appEntries) + i)]
                    /\ IF Len(appEntries') % RemoteRecomputeEvery = 0
                       THEN op' = "recompute"
                       ELSE op' = "message" /\ persistTimer' = TRUE
               ELSE /\ op' = "message"
                    /\ UNCHANGED <<appEntries, persistTimer>>
    /\ UNCHANGED <<appK, appTypes, appFilter, recording, recTypes, nextId, saved>>

\* one step of the page with a probe: a handler runs to its end
NextProbe ==
    /\ \/ NewProbe
       \/ \E ev \in Events : OnMessage(ev)
       \/ PersistTimeout /\ UNCHANGED probe
    /\ IF op' = "recompute"
       THEN Recomputed(appEntries', appTypes', appFilter', appK')
       ELSE UNCHANGED <<stats, clusters, outliers, calls, raised>>
    /\ UNCHANGED <<pctVars, entries, topN, nrmVars, kmVars, frameVars, gen, share>>

SpecProbe == InitProbe /\ [][NextProbe]_vars

\* ---- C26

\* C26: a window message whose __perfscope flag is not true or whose token is
\* not the current state.probeToken, a token the 'new probe' button replaced
\* earlier included, leaves state.entries, state.probeConnected and
\* state.probeSource unchanged.
C26_OnlyMatchingMessages ==
    [][(probe'.seq = probe.seq + 1 /\ ~(probe'.flagged /\ probe'.last = probe.token)) =>
           /\ appEntries' = appEntries
           /\ probe'.connected = probe.connected
           /\ probe'.source = probe.source]_vars

\* a probe had connected and sent an entry, the button replaced its token,
\* and a flagged message with the replaced token has been received since:
\* the page is not connected
C26_Witness ==
    /\ probe.seq = 2 /\ probe.flagged
    /\ probe.last \in probe.replaced
    /\ Len(appEntries) = 1
    /\ ~probe.connected /\ probe.source = "null"

=============================================================================
